---- MODULE Spec2Model ----
(***************************************************************************)
(* Model of the project repository manager (package prjrepo): the context  *)
(* registry, the settings files, the settings chain of a working directory *)
(* and the operations of ContextManager and Config in                      *)
(* prjrepo/config/context.py.                                              *)
(*                                                                         *)
(* Python strings are sequences of one-character strings, so that split,   *)
(* strip and join are computed as the code computes them.  Python values   *)
(* are tagged records [t, v]: t is "int" or "str" for a scalar (v its      *)
(* text), "dict" for a mapping (v a function from keys to values) and      *)
(* "none" for None.                                                        *)
(***************************************************************************)
EXTENDS Integers, Sequences, FiniteSets, TLC

\* ------------------------------------------------------------------------
\* Bounds
\* ------------------------------------------------------------------------

\* Number of calls (get_value, update_value, create_context) in a run.
MaxCalls == 2

\* Number of identifiers the random generator can still produce.
NumUuids == 2

\* ------------------------------------------------------------------------
\* Strings
\* ------------------------------------------------------------------------

TAB == "\t"

NL == "\n"

WhiteSpace == {" ", TAB, NL}

\* The position of the first occurrence of character c in s at or after
\* position i, 0 if there is none (str.find, 1-based).
RECURSIVE Find(_, _, _)
Find(s, c, i) ==
    IF i > Len(s) THEN 0
    ELSE IF s[i] = c THEN i
    ELSE Find(s, c, i + 1)

\* str.split(sep) for a one-character separator.
RECURSIVE Split(_, _)
Split(s, sep) ==
    LET i == Find(s, sep, 1) IN
    IF i = 0 THEN << s >>
    ELSE << SubSeq(s, 1, i - 1) >> \o Split(SubSeq(s, i + 1, Len(s)), sep)

RECURSIVE LStrip(_)
LStrip(s) ==
    IF s # << >> /\ Head(s) \in WhiteSpace THEN LStrip(Tail(s)) ELSE s

RECURSIVE RStrip(_)
RStrip(s) ==
    IF s # << >> /\ s[Len(s)] \in WhiteSpace
    THEN RStrip(SubSeq(s, 1, Len(s) - 1))
    ELSE s

\* str.strip()
Strip(s) == RStrip(LStrip(s))

\* sep.join(parts) for a one-character separator.
RECURSIVE Join(_, _)
Join(parts, sep) ==
    IF parts = << >> THEN << >>
    ELSE IF Len(parts) = 1 THEN parts[1]
    ELSE parts[1] \o << sep >> \o Join(Tail(parts), sep)

\* ------------------------------------------------------------------------
\* Python values
\* ------------------------------------------------------------------------

None == [t |-> "none", v |-> << >>]

IntV(s) == [t |-> "int", v |-> s]

StrV(s) == [t |-> "str", v |-> s]

DictV(f) == [t |-> "dict", v |-> f]

EmptyDict == DictV(<< >>)

\* isinstance(x, dict)
IsDict(x) == x.t = "dict"

\* The content of a path that is not a file on disk.
Absent == [t |-> "absent", v |-> << >>]

\* The outcome of a call: the exception raised ("none" when the call
\* returned), the message that tells the exceptions of one class apart, and
\* the returned value.
Returned(val) == [exc |-> "none", msg |-> "", val |-> val]

Raised(exc, msg) == [exc |-> exc, msg |-> msg, val |-> None]

\* ------------------------------------------------------------------------
\* Files of the project directory
\* ------------------------------------------------------------------------

\* prjrepo.config.SETTINGS_FILE
SETTINGS_FILE == << "S", "E", "T", "T", "I", "N", "G", "S" >>

YamlSuffix == << ".", "y", "a", "m", "l" >>

\* The path of the project settings file (ContextManager.settings_file).
settings_file == << "project_dir", SETTINGS_FILE >>

\* os.path.join(self.context_dir, name)
context_file(name) == << "context_dir", name >>

Digits == << "1", "2", "3", "4", "5", "6", "7", "8", "9" >>

\* The identifier of the settings file the test fixture puts on disk.
FixtureId == << "A" >>

\* The identifiers uuid.uuid4() can produce in a run.  FixtureId stands for
\* a draw that hits a file already on disk.
UuidPool == {FixtureId} \cup {<< "u", Digits[i] >> : i \in 1..NumUuids}

FilePaths == {settings_file} \cup {context_file(id \o YamlSuffix) : id \in UuidPool}

\* os.path.isfile(filename)
isfile(disk, filename) == filename \in DOMAIN disk /\ disk[filename] # Absent

\* read_settings(filename): the parsed content of the file, an empty
\* dictionary if the file does not exist.  The content is kept parsed: it
\* is None for a file without a document.
read_settings(disk, filename) ==
    IF isfile(disk, filename) THEN disk[filename] ELSE EmptyDict

\* The value that stands for a TypeError raised while merging.
TypeErrorV == [t |-> "TypeError", v |-> << >>]

\* nested_merge as dict.update: a colliding key takes the value of d2 even
\* when both values are dictionaries.
nested_merge_shallow(d1, d2) ==
    IF d1 = TypeErrorV \/ ~IsDict(d2) THEN TypeErrorV
    ELSE IF DOMAIN d2.v = {} THEN d1
    ELSE IF ~IsDict(d1) THEN TypeErrorV
    ELSE DictV([key \in DOMAIN d1.v \cup DOMAIN d2.v |->
            IF key \in DOMAIN d2.v THEN d2.v[key] ELSE d1.v[key]])

\* nested_merge that merges into a mapping of d1 only: a scalar of d2 does
\* not replace a mapping of d1.
RECURSIVE nested_merge_keep_mapping(_, _)
nested_merge_keep_mapping(d1, d2) ==
    IF d1 = TypeErrorV \/ ~IsDict(d2) THEN TypeErrorV
    ELSE IF DOMAIN d2.v = {} THEN d1
    ELSE IF ~IsDict(d1) THEN TypeErrorV
    ELSE DictV([key \in DOMAIN d1.v \cup DOMAIN d2.v |->
            IF key \notin DOMAIN d2.v THEN d1.v[key]
            ELSE IF key \notin DOMAIN d1.v THEN d2.v[key]
            ELSE IF IsDict(d1.v[key])
                 THEN IF IsDict(d2.v[key])
                      THEN nested_merge_keep_mapping(d1.v[key], d2.v[key])
                      ELSE d1.v[key]
            ELSE d2.v[key]])

\* nested_merge(d1, d2)
RECURSIVE nested_merge(_, _)
nested_merge(d1, d2) ==
    IF d1 = TypeErrorV \/ ~IsDict(d2) THEN TypeErrorV
    ELSE IF DOMAIN d2.v = {} THEN d1
    ELSE IF ~IsDict(d1) THEN TypeErrorV
    ELSE DictV([key \in DOMAIN d1.v \cup DOMAIN d2.v |->
            IF key \notin DOMAIN d2.v THEN d1.v[key]
            ELSE IF key \notin DOMAIN d1.v THEN d2.v[key]
            ELSE IF IsDict(d1.v[key]) /\ IsDict(d2.v[key])
                 THEN nested_merge(d1.v[key], d2.v[key])
            ELSE d2.v[key]])

\* Config.settings for the files cfiles[1..n]: the first file merged with
\* the second, the result with the third, and so on.
RECURSIVE settings_upto(_, _, _)
settings_upto(disk, cfiles, n) ==
    IF n = 1 THEN read_settings(disk, cfiles[1][2])
    ELSE nested_merge(settings_upto(disk, cfiles, n - 1),
                      read_settings(disk, cfiles[n][2]))

\* Config.settings
settings(disk, cfiles) == settings_upto(disk, cfiles, Len(cfiles))

\* get_value that returns the dictionary a path ends at.
RECURSIVE get_walk_any(_, _)
get_walk_any(el, comps) ==
    IF comps = << >> THEN Returned(el)
    ELSE IF IsDict(el)
         THEN IF Head(comps) \in DOMAIN el.v
              THEN get_walk_any(el.v[Head(comps)], Tail(comps))
              ELSE Raised("ValueError", "unknown parameter")
         ELSE Raised("ValueError", "cannot get value")

\* The loop and the final test of Config.get_value on element el.
RECURSIVE get_walk(_, _)
get_walk(el, comps) ==
    IF comps = << >>
    THEN IF ~IsDict(el) THEN Returned(el)
         ELSE Raised("ValueError", "cannot get value")
    ELSE IF IsDict(el)
         THEN IF Head(comps) \in DOMAIN el.v
              THEN get_walk(el.v[Head(comps)], Tail(comps))
              ELSE Raised("ValueError", "unknown parameter")
         ELSE Raised("ValueError", "cannot get value")

\* Config.get_value(para)
get_value(disk, cfiles, para) ==
    LET el == settings(disk, cfiles) IN
    IF el = TypeErrorV THEN Raised("TypeError", "")
    ELSE get_walk(el, Split(para, "."))

\* ------------------------------------------------------------------------
\* Context registry and settings chain
\* ------------------------------------------------------------------------

\* read_contexts(filename) on the lines of the context listing file.
RECURSIVE read_contexts(_)
read_contexts(lines) ==
    IF lines = << >> THEN << >>
    ELSE LET contexts == read_contexts(SubSeq(lines, 1, Len(lines) - 1))
             tokens == Split(Strip(lines[Len(lines)]), TAB)
         IN  IF Len(tokens) = 2
             THEN [k \in DOMAIN contexts \cup {tokens[1]} |->
                      IF k = tokens[1] THEN tokens[2] ELSE contexts[k]]
             ELSE contexts

\* s starts with prefix (str.startswith).
StartsWith(s, prefix) ==
    Len(prefix) <= Len(s) /\ SubSeq(s, 1, Len(prefix)) = prefix

\* get_context_files selecting a registry path the prefix key starts with
\* inside its last segment, instead of the registry path equal to the key.
RECURSIVE context_files_startswith(_, _, _)
context_files_startswith(contexts, path, n) ==
    IF n = 0 THEN << << << >>, settings_file >> >>
    ELSE LET key == Join(SubSeq(path, 1, n), "/")
             before == context_files_startswith(contexts, path, n - 1)
             found == {k \in DOMAIN contexts :
                          /\ StartsWith(key, k)
                          /\ Find(key, "/", Len(k) + 1) = 0}
         IN  IF found # {}
             THEN LET k == CHOOSE k \in found :
                               \A o \in found : Len(k) <= Len(o)
                  IN  Append(before, << k, context_file(contexts[k]) >>)
             ELSE before

\* The entries ContextManager.get_context_files appends for the prefixes
\* path[:1] .. path[:n].
RECURSIVE context_files_upto(_, _, _)
context_files_upto(contexts, path, n) ==
    IF n = 0 THEN << << << >>, settings_file >> >>
    ELSE LET key == Join(SubSeq(path, 1, n), "/")
             before == context_files_upto(contexts, path, n - 1)
         IN  IF key \in DOMAIN contexts
             THEN Append(before, << key, context_file(contexts[key]) >>)
             ELSE before

\* get_context_files that looks up the working directory only, not the
\* directories above it.
get_context_files_own(lines, path) ==
    LET contexts == read_contexts(lines)
        key == Join(path, "/")
    IN  IF Len(path) > 0 /\ key \in DOMAIN contexts
        THEN << << << >>, settings_file >>, << key, context_file(contexts[key]) >> >>
        ELSE << << << >>, settings_file >> >>

\* ContextManager.get_context_files()
get_context_files(lines, path) ==
    context_files_upto(read_contexts(lines), path, Len(path))

\* The files of ContextManager.project_settings()
project_files == << << << >>, settings_file >> >>

\* ------------------------------------------------------------------------
\* Config.update_value
\* ------------------------------------------------------------------------

\* el[key] = val
dict_set(el, key, val) ==
    DictV([k \in DOMAIN el.v \cup {key} |-> IF k = key THEN val ELSE el.v[k]])

\* A deletion that leaves the key in place.
dict_del_keep(el, key) == el

\* del el[key]
dict_del(el, key) == DictV([k \in DOMAIN el.v \ {key} |-> el.v[k]])

\* The statements of Config.update_value on the content of one file, from
\* element el on: the walk along the components comps of the path prefix,
\* then the assignment or the deletion of key.  Returns the element as the
\* statements leave it.
RECURSIVE update_walk(_, _, _, _)
update_walk(el, comps, key, value) ==
    IF comps = << >>
    THEN IF value # None
         THEN IF IsDict(el) THEN Returned(dict_set(el, key, value))
              ELSE Raised("TypeError", "")
         ELSE IF el # None
              THEN IF ~IsDict(el) THEN Raised("TypeError", "")
                   ELSE IF key \in DOMAIN el.v THEN Returned(dict_del(el, key))
                   ELSE Raised("KeyError", "")
              ELSE Returned(el)
    ELSE LET comp == Head(comps) IN
         IF ~IsDict(el) THEN Raised("TypeError", "")
         ELSE IF comp \notin DOMAIN el.v
         THEN IF value # None
              THEN LET r == update_walk(EmptyDict, Tail(comps), key, value) IN
                   IF r.exc = "none" THEN Returned(dict_set(el, comp, r.val))
                   ELSE r
              ELSE update_walk(el, << >>, key, value)
         ELSE LET child == el.v[comp] IN
              IF ~IsDict(child)
              THEN IF child.t = "str"
                   THEN Raised("ValueError", "cannot create element under text value")
                   ELSE Raised("TypeError", "")
              ELSE LET r == update_walk(child, Tail(comps), key, value) IN
                   IF r.exc = "none" THEN Returned(dict_set(el, comp, r.val))
                   ELSE r

\* The loop of update_value that goes on with the next file after an
\* exception, and raises the first exception at the end.
RECURSIVE update_files_go_on(_, _, _, _, _, _)
update_files_go_on(disk, cfiles, i, path, key, value) ==
    IF i > Len(cfiles)
    THEN [disk |-> disk, res |-> Returned(None), written |-> << >>]
    ELSE LET filename == cfiles[i][2]
             r == update_walk(read_settings(disk, filename),
                              SubSeq(path, 1, Len(path) - 1), key, value)
             rest == update_files_go_on(
                         IF r.exc # "none" THEN disk
                         ELSE [disk EXCEPT ![filename] = r.val],
                         cfiles, i + 1, path, key, value)
         IN  [disk |-> rest.disk,
              res |-> IF r.exc # "none" THEN r ELSE rest.res,
              written |-> (IF r.exc # "none" THEN << >> ELSE << filename >>)
                          \o rest.written]

\* The loop of Config.update_value over the files cfiles[i..]: each file is
\* read, changed and written in turn, and an exception ends the loop.
\* Returns the disk, the outcome and the files written, in order.
RECURSIVE update_files(_, _, _, _, _, _)
update_files(disk, cfiles, i, path, key, value) ==
    IF i > Len(cfiles)
    THEN [disk |-> disk, res |-> Returned(None), written |-> << >>]
    ELSE LET filename == cfiles[i][2]
             r == update_walk(read_settings(disk, filename),
                              SubSeq(path, 1, Len(path) - 1), key, value)
         IN  IF r.exc # "none"
             THEN [disk |-> disk, res |-> r, written |-> << >>]
             ELSE LET rest == update_files(
                                 [disk EXCEPT ![filename] = r.val],
                                 cfiles, i + 1, path, key, value)
                  IN  [disk |-> rest.disk, res |-> rest.res,
                       written |-> << filename >> \o rest.written]

\* update_value that cascades whether asked to or not.
update_start_always_cascade(cfiles, cascade) == 2

\* update_value that ignores cascade and changes the last file only.
update_start_last_only(cfiles, cascade) == Len(cfiles)

\* update_value whose cascade starts at the project settings (index 0).
update_start_from_root(cfiles, cascade) == IF cascade THEN 1 ELSE Len(cfiles)

\* The index of the first file Config.update_value changes: Python index 1
\* when cascading, the last file otherwise.
update_start(cfiles, cascade) == IF cascade THEN 2 ELSE Len(cfiles)

\* Config.update_value(para, value, cascade)
update_value(disk, cfiles, para, value, cascade) ==
    LET path == Split(para, ".")
        key == Strip(path[Len(path)])
        start == update_start(cfiles, cascade)
    IN  IF key = << >>
        THEN [disk |-> disk, res |-> Raised("ValueError", "invalid parameter name"),
              written |-> << >>]
        ELSE update_files(disk, cfiles, start, path, key, value)

\* ------------------------------------------------------------------------
\* ContextManager.create_context
\* ------------------------------------------------------------------------

\* create_context that takes any context on the chain for an existing one.
create_context_check_any(lines, path) ==
    IF Len(path) = 0
    THEN Raised("RuntimeError", "cannot create context in project base")
    ELSE IF Len(get_context_files(lines, path)) > 1
         THEN Raised("RuntimeError", "context already exists")
         ELSE Returned(None)

\* create_context without the check for the project base.
create_context_check_no_base(lines, path) ==
    LET rel_path == Join(path, "/")
        cfiles == get_context_files(lines, path)
    IN  IF cfiles[Len(cfiles)][1] = rel_path
        THEN Raised("RuntimeError", "context already exists")
        ELSE Returned(None)

\* The two checks of ContextManager.create_context, for the working
\* directory at the relative path `path`.
create_context_check(lines, path) ==
    IF Len(path) = 0
    THEN Raised("RuntimeError", "cannot create context in project base")
    ELSE LET rel_path == Join(path, "/")
             cfiles == get_context_files(lines, path)
         IN  IF cfiles[Len(cfiles)][1] = rel_path
             THEN Raised("RuntimeError", "context already exists")
             ELSE Returned(None)

\* The line create_context appends to the context listing file.
context_line(rel_path, context_id) ==
    rel_path \o << TAB >> \o context_id \o YamlSuffix \o << NL >>

\* The context listing file opened for writing ('w'): the line replaces the
\* content of the file.
write_line(lines, line) == << line >>

\* The context listing file opened for appending ('a') and the line
\* written to it.
append_line(lines, line) == Append(lines, line)

\* ------------------------------------------------------------------------
\* Command specifications
\* ------------------------------------------------------------------------

\* The position of the first occurrence of the string sub in s at or after
\* position i, 0 if there is none (str.find, 1-based).
RECURSIVE FindStr(_, _, _)
FindStr(s, sub, i) ==
    IF i + Len(sub) - 1 > Len(s) THEN 0
    ELSE IF SubSeq(s, i, i + Len(sub) - 1) = sub THEN i
    ELSE FindStr(s, sub, i + 1)

\* The markers that enclose a variable reference.
OpenMarker == << "[", "[" >>

CloseMarker == << "]", "]" >>

\* The token loop of CommandComponent.__init__ on the rest val of the
\* value: the tokens, or the ValueError for an opening marker with no
\* closing marker after it.
RECURSIVE parse_tokens(_)
parse_tokens(val) ==
    LET i_start == FindStr(val, OpenMarker, 1) IN
    IF i_start = 0
    THEN Returned(IF val # << >> THEN << val >> ELSE << >>)
    ELSE LET i_end == FindStr(val, CloseMarker, i_start) IN
         IF i_end = 0
         THEN Raised("ValueError", "invalid variable expression")
         ELSE LET rest == parse_tokens(SubSeq(val, i_end + 2, Len(val)))
              IN  IF rest.exc # "none" THEN rest
                  ELSE Returned(
                         (IF i_start > 1 THEN << SubSeq(val, 1, i_start - 1) >>
                          ELSE << >>)
                         \o << SubSeq(val, i_start, i_end + 1) >> \o rest.val)

COMPONENT_TYPES == {"CONST", "VAR"}

IO_TYPES == {"DIR", "FILE"}

\* None as the io_type of a component.
NoIoType == "None"

\* CommandComponent(obj_type, value, io_type, as_input): the component, or
\* the ValueError of the constructor.
CommandComponent(obj_type, value, io_type, as_input) ==
    IF obj_type \notin COMPONENT_TYPES
    THEN Raised("ValueError", "invalid component type")
    ELSE IF io_type # NoIoType /\ io_type \notin IO_TYPES
    THEN Raised("ValueError", "invalid IO type")
    ELSE LET t == IF obj_type = "VAR" THEN parse_tokens(value)
                  ELSE Returned(<< >>)
         IN  IF t.exc # "none" THEN t
             ELSE Returned([obj_type |-> obj_type, io_type |-> io_type,
                            value |-> value, as_input |-> as_input,
                            tokens |-> t.val])

\* The loop of get_command over the component entries els[i..] of the
\* document: the components, or the first exception a constructor raises.
RECURSIVE build_components(_, _)
build_components(els, i) ==
    IF i > Len(els) THEN Returned(<< >>)
    ELSE LET el == els[i]
             c == CommandComponent(
                      el.type, el.value,
                      IF "ioType" \in DOMAIN el THEN el.ioType ELSE NoIoType,
                      IF "asInput" \in DOMAIN el THEN el.asInput ELSE FALSE)
         IN  IF c.exc # "none" THEN c
             ELSE LET rest == build_components(els, i + 1) IN
                  IF rest.exc # "none" THEN rest
                  ELSE Returned(<< c.val >> \o rest.val)

\* DefaultCommandRepository.get_command(name) on the files of the command
\* directory: a file is the document yaml.load gives, None for an empty
\* file.
get_command(cmd_files, name) ==
    IF name \notin DOMAIN cmd_files
    THEN Raised("ValueError", "unknown command")
    ELSE LET doc == cmd_files[name] IN
         IF doc = None THEN Raised("TypeError", "")
         ELSE IF "spec" \notin DOMAIN doc THEN Raised("KeyError", "spec")
         ELSE LET components == build_components(doc.spec, 1) IN
              IF components.exc # "none" THEN components
              ELSE IF "type" \notin DOMAIN doc THEN Raised("KeyError", "type")
              ELSE IF doc.type \in {"EXEC", "SQL"}
              THEN Returned([name |-> name, command_type |-> doc.type,
                             components |-> components.val])
              ELSE Raised("KeyError", "vartype")

\* ------------------------------------------------------------------------
\* Rendering and running a command
\* ------------------------------------------------------------------------

\* s ends with suffix (str.endswith).
EndsWith(s, suffix) ==
    Len(suffix) <= Len(s) /\ SubSeq(s, Len(s) - Len(suffix) + 1, Len(s)) = suffix

\* settings.get_value(name, default_values=default_values) as
\* to_cmd_string calls it: Config.get_value(self, para) takes no such
\* keyword argument, and the call raises TypeError before the method runs.
get_value_default_values(disk, cfiles, para, default_values) ==
    Raised("TypeError", "get_value() got an unexpected keyword argument")

\* The loop of to_cmd_string over the tokens[i..] of a variable component:
\* the list of values, or the first exception.
RECURSIVE token_values(_, _, _, _, _)
token_values(tokens, i, disk, cfiles, default_values) ==
    IF i > Len(tokens) THEN Returned(<< >>)
    ELSE LET token == tokens[i]
             rest == token_values(tokens, i + 1, disk, cfiles, default_values)
         IN  IF StartsWith(token, OpenMarker) /\ EndsWith(token, CloseMarker)
             THEN LET val == get_value_default_values(
                                 disk, cfiles, SubSeq(token, 3, Len(token) - 2),
                                 default_values)
                  IN  IF val.exc # "none" THEN val
                      ELSE IF val.val = None
                      THEN Raised("ValueError", "unknown variable")
                      ELSE IF rest.exc # "none" THEN rest
                      ELSE Returned(<< val.val >> \o rest.val)
             ELSE IF rest.exc # "none" THEN rest
                  ELSE Returned(<< StrV(token) >> \o rest.val)

\* ''.join(values): the concatenation, a TypeError for a value that is not
\* a string.
RECURSIVE join_values(_)
join_values(values) ==
    IF values = << >> THEN Returned(<< >>)
    ELSE IF Head(values).t # "str" THEN Raised("TypeError", "")
    ELSE LET rest == join_values(Tail(values)) IN
         IF rest.exc # "none" THEN rest
         ELSE Returned(Head(values).v \o rest.val)

\* CommandComponent.to_cmd_string(settings, default_values)
to_cmd_string(el, disk, cfiles, default_values) ==
    IF el.obj_type = "CONST" THEN Returned(el.value)
    ELSE LET values == token_values(el.tokens, 1, disk, cfiles, default_values)
         IN  IF values.exc # "none" THEN values
             ELSE join_values(values.val)

\* context.locate_input_file(val, ref_file) as run_command calls it:
\* ContextManager defines no such method, and the call raises
\* AttributeError.
locate_input_file(val, ref_file) ==
    Raised("AttributeError", "locate_input_file")

\* The test of run_command without the type of the component: every
\* component flagged as input is looked up.
is_input_any(el) == el.as_input

\* el.ref_io and el.as_input
is_input(el) == el.io_type # NoIoType /\ el.as_input

\* The loop of run_command over the components els[i..]: the rendered
\* components, or the first exception, and the components
\* locate_input_file was called for.
RECURSIVE render_components(_, _, _, _, _)
render_components(els, i, disk, cfiles, default_values) ==
    IF i > Len(els) THEN [res |-> Returned(<< >>), located |-> << >>]
    ELSE LET el == els[i]
             val == to_cmd_string(el, disk, cfiles, default_values)
         IN  IF val.exc # "none" THEN [res |-> val, located |-> << >>]
             ELSE LET loc == IF is_input(el)
                             THEN locate_input_file(val.val, el.io_type = "FILE")
                             ELSE val
                      here == IF is_input(el) THEN << i >> ELSE << >>
                  IN  IF loc.exc # "none" THEN [res |-> loc, located |-> here]
                      ELSE LET rest == render_components(
                                          els, i + 1, disk, cfiles, default_values)
                           IN  [res |-> IF rest.res.exc # "none" THEN rest.res
                                        ELSE Returned(<< loc.val >> \o rest.res.val),
                                located |-> here \o rest.located]

\* cmd.compute(cmd_line, settings) as run_command calls it: Command and
\* its subclasses define no such method, and the call raises
\* AttributeError; no process is started, whatever status it would exit
\* with.
compute(cmd, cmd_line, status) == Raised("AttributeError", "compute")

\* The entry DefaultLogger.log builds for a command and its rendered
\* components.
log_entry(cmd, cmd_components) ==
    [name |-> cmd.name,
     components |->
        [i \in 1..Len(cmd.components) |->
            LET c == cmd.components[i] IN
            IF c.io_type # NoIoType
            THEN [value |-> cmd_components[i],
                  io |-> IF c.io_type = "FILE" THEN "FILE" ELSE "DIR",
                  input |-> IF c.as_input THEN "True" ELSE "False"]
            ELSE [value |-> cmd_components[i]]]]

\* What a run_command leaves: the outcome, the lines printed, the
\* components looked up as input, the log file and the number of processes
\* started.
Ran(res, printed, located, log, started) ==
    [res |-> res, printed |-> printed, located |-> located,
     log |-> log, started |-> started]

\* run_command that logs the command as soon as it is loaded, before its
\* components are rendered.
run_command_log_first(cmd_files, disk, cfiles, log, cmd_name, default_values, print_only, status) ==
    LET cmd == get_command(cmd_files, cmd_name) IN
    IF cmd.exc # "none" THEN Ran(cmd, << >>, << >>, log, 0)
    ELSE LET logged == Append(log, [name |-> cmd.val.name, components |-> << >>])
             r == render_components(cmd.val.components, 1, disk, cfiles,
                                    default_values)
         IN  IF r.res.exc # "none" THEN Ran(r.res, << >>, r.located, logged, 0)
             ELSE LET cmd_line == Join(r.res.val, " ") IN
                  IF print_only
                  THEN Ran(Returned(None), << cmd_line >>, r.located, log, 0)
                  ELSE LET result == compute(cmd.val, cmd_line, status) IN
                       IF result.exc # "none"
                       THEN Ran(result, << >>, r.located, logged, 0)
                       ELSE Ran(Returned(None), << >>, r.located, logged, 1)

\* WorkflowEngine.run_command(context, cmd_name, default_values,
\* print_only), for a process that would exit with the given status.
run_command(cmd_files, disk, cfiles, log, cmd_name, default_values, print_only, status) ==
    LET cmd == get_command(cmd_files, cmd_name) IN
    IF cmd.exc # "none" THEN Ran(cmd, << >>, << >>, log, 0)
    ELSE LET r == render_components(cmd.val.components, 1, disk, cfiles,
                                    default_values)
         IN  IF r.res.exc # "none" THEN Ran(r.res, << >>, r.located, log, 0)
             ELSE LET cmd_line == Join(r.res.val, " ") IN
                  IF print_only
                  THEN Ran(Returned(None), << cmd_line >>, r.located, log, 0)
                  ELSE LET result == compute(cmd.val, cmd_line, status) IN
                       IF result.exc # "none"
                       THEN Ran(result, << >>, r.located, log, 0)
                       ELSE Ran(Returned(None), << >>, r.located,
                                IF result.val = 0
                                THEN Append(log, log_entry(cmd.val, r.res.val))
                                ELSE log,
                                1)

\* ------------------------------------------------------------------------
\* State
\* ------------------------------------------------------------------------

VARIABLES
    contextls,      \* the lines of the context listing file (the registry)
    disk,           \* the content of the settings files, by path
    drawn,          \* the identifiers uuid4 has produced for a context
    ops,            \* the number of calls made
    last,           \* the last call: operation, arguments, outcome
    pre_disk,       \* disk before the last call
    pre_contextls,  \* contextls before the last call
    cmd_files,      \* the documents of the command directory, by name
    fs,             \* the directories and files of the file system
    log,            \* the entries of the log file
    started,        \* the number of processes started
    procs,          \* the update_value calls of concurrent processes
    raw             \* the text of the settings file those calls share

vars == << contextls, disk, drawn, ops, last, pre_disk, pre_contextls,
           cmd_files, fs, log, started, procs, raw >>

\* What the operations on settings and contexts leave alone.
env == << cmd_files, fs, log, started, procs, raw >>

\* Names of the repository directory and of what it holds
\* (prjrepo.config).
REPO_DIR == << ".", "p", "r", "m" >>

COMMAND_DIR == << "c", "o", "m", "m", "a", "n", "d", "s" >>

CONTEXT_DIR == << "c", "o", "n", "t", "e", "x", "t", "s" >>

CONTEXTLIST_FILE == << "C", "O", "N", "T", "E", "X", "T", "L", "I", "S", "T" >>

LOG_FILE == << "L", "O", "G" >>

\* A path of the file system is the sequence of its names from / on; fs
\* holds a pair of path and kind for every directory and file.
os_path_isdir(files, path) == << path, "dir" >> \in files

os_path_isfile(files, path) == << path, "file" >> \in files

\* What init_repository creates in directory dir.
init_repository(dir) ==
    {<< dir \o << REPO_DIR >>, "dir" >>,
     << dir \o << REPO_DIR, COMMAND_DIR >>, "dir" >>,
     << dir \o << REPO_DIR, CONTEXT_DIR >>, "dir" >>,
     << dir \o << REPO_DIR, CONTEXTLIST_FILE >>, "file" >>,
     << dir \o << REPO_DIR, LOG_FILE >>, "file" >>,
     << dir \o << REPO_DIR, SETTINGS_FILE >>, "file" >>}

\* The directory of the project: /p.
n_p == << "p" >>

ProjectDir == << n_p >>

\* Directory names and relative paths (self.path) of the working
\* directories: the project base, db and db/sub of the tests, and d.
n_d == << "d" >>

n_db == << "d", "b" >>

n_sub == << "s", "u", "b" >>

BaseDir == << >>

WorkDirs == {BaseDir, << n_d >>, << n_db >>, << n_db, n_sub >>}

\* Parameter expressions: c, ' c', e.c, e.x, c.x and ' '.
Params == {<< "c" >>, << " ", "c" >>, << "e", ".", "c" >>,
           << "e", ".", "x" >>, << "c", ".", "x" >>, << " " >>}

\* Parameter expressions read: those above and a, b and e.
GetParams == Params \cup {<< "a" >>, << "b" >>, << "e" >>}

\* Parameter values: the text v, as a command line argument is.
Values == {StrV(<< "v" >>)}

\* The project settings and the settings of context db that setUp of the
\* context manager test writes.
FixtureSettings ==
    DictV((<< "a" >> :> IntV(<< "1" >>)) @@ (<< "b" >> :> IntV(<< "2" >>)))

FixtureContext ==
    DictV((<< "b" >> :> IntV(<< "1" >>)) @@ (<< "c" >> :> IntV(<< "2" >>)))

\* The file system of the project: /, the project directory with its
\* repository directory, and the working directories.
FixtureFs ==
    {<< << >>, "dir" >>}
    \cup {<< ProjectDir \o path, "dir" >> : path \in WorkDirs}
    \cup init_repository(ProjectDir)

\* The name of a command and the document of its specification file: one
\* constant component.
n_c == << "c" >>

FixtureCommands ==
    n_c :> [type |-> "EXEC", spec |-> << [type |-> "CONST", value |-> << "x" >>] >>]

\* The command directory, the file system, the log file and the processes
\* of the test fixture.
InitEnv ==
    /\ cmd_files = FixtureCommands
    /\ fs = FixtureFs
    /\ log = << >>
    /\ started = 0
    /\ procs = << >>
    /\ raw = << >>

Call(op, path, para, value, cascade, res, written) ==
    [op |-> op, path |-> path, para |-> para, value |-> value,
     cascade |-> cascade, res |-> res, written |-> written]

Init ==
    /\ contextls = << context_line(n_db, FixtureId) >>
    /\ disk = [f \in FilePaths |->
                 IF f = settings_file THEN FixtureSettings
                 ELSE IF f = context_file(FixtureId \o YamlSuffix) THEN FixtureContext
                 ELSE Absent]
    /\ drawn = {}
    /\ ops = 0
    /\ last = Call("init", BaseDir, << >>, None, FALSE, Returned(None), << >>)
    /\ pre_disk = disk
    /\ pre_contextls = contextls
    /\ InitEnv

\* ContextManager(path).context_settings().get_value(para)
ContextGet(path, para) ==
    /\ ops < MaxCalls
    /\ last' = Call("get_value", path, para, None, FALSE,
                    get_value(disk, get_context_files(contextls, path), para),
                    << >>)
    /\ ops' = ops + 1
    /\ pre_disk' = disk
    /\ pre_contextls' = contextls
    /\ UNCHANGED << contextls, disk, drawn >>
    /\ UNCHANGED env

\* ContextManager(.).project_settings().get_value(para)
ProjectGet(para) ==
    /\ ops < MaxCalls
    /\ last' = Call("project_get_value", BaseDir, para, None, FALSE,
                    get_value(disk, project_files, para), << >>)
    /\ ops' = ops + 1
    /\ pre_disk' = disk
    /\ pre_contextls' = contextls
    /\ UNCHANGED << contextls, disk, drawn >>
    /\ UNCHANGED env

\* ContextManager(path).context_settings().update_value(para, value, cascade)
ContextUpdate(path, para, value, cascade) ==
    /\ ops < MaxCalls
    /\ LET u == update_value(disk, get_context_files(contextls, path),
                             para, value, cascade)
       IN  /\ disk' = u.disk
           /\ last' = Call("update_value", path, para, value, cascade,
                           u.res, u.written)
    /\ ops' = ops + 1
    /\ pre_disk' = disk
    /\ pre_contextls' = contextls
    /\ UNCHANGED << contextls, drawn >>
    /\ UNCHANGED env

\* ContextManager(.).project_settings().update_value(para, value)
ProjectUpdate(para, value) ==
    /\ ops < MaxCalls
    /\ LET u == update_value(disk, project_files, para, value, FALSE)
       IN  /\ disk' = u.disk
           /\ last' = Call("project_update_value", BaseDir, para, value, FALSE,
                           u.res, u.written)
    /\ ops' = ops + 1
    /\ pre_disk' = disk
    /\ pre_contextls' = contextls
    /\ UNCHANGED << contextls, drawn >>
    /\ UNCHANGED env

\* ContextManager(path).create_context(), refused by one of its checks.
CreateContextFail(path) ==
    /\ ops < MaxCalls
    /\ create_context_check(contextls, path).exc # "none"
    /\ last' = Call("create_context", path, << >>, None, FALSE,
                    create_context_check(contextls, path), << >>)
    /\ ops' = ops + 1
    /\ pre_disk' = disk
    /\ pre_contextls' = contextls
    /\ UNCHANGED << contextls, disk, drawn >>
    /\ UNCHANGED env

\* ContextManager(path).create_context(): the identifier is drawn until no
\* file of that name exists, and the line is appended.
CreateContext(path) ==
    /\ ops < MaxCalls
    /\ create_context_check(contextls, path).exc = "none"
    /\ \E context_id \in UuidPool \ drawn :
          /\ ~isfile(disk, context_file(context_id \o YamlSuffix))
          /\ contextls' = append_line(contextls,
                                       context_line(Join(path, "/"), context_id))
          /\ drawn' = drawn \cup {context_id}
    /\ last' = Call("create_context", path, << >>, None, FALSE,
                    Returned(None), << >>)
    /\ ops' = ops + 1
    /\ pre_disk' = disk
    /\ pre_contextls' = contextls
    /\ UNCHANGED disk
    /\ UNCHANGED env

Next ==
    \/ \E path \in WorkDirs, para \in GetParams : ContextGet(path, para)
    \/ \E para \in GetParams : ProjectGet(para)
    \/ \E path \in WorkDirs, para \in Params, value \in Values \cup {None},
          cascade \in BOOLEAN : ContextUpdate(path, para, value, cascade)
    \/ \E para \in Params, value \in Values \cup {None} :
          ProjectUpdate(para, value)
    \/ \E path \in WorkDirs : CreateContextFail(path)
    \/ \E path \in WorkDirs : CreateContext(path)

Spec == Init /\ [][Next]_vars

\* ------------------------------------------------------------------------
\* The merged view over settings files of any content
\* ------------------------------------------------------------------------

\* The settings files of the project, of context db and of context db/sub
\* hold any of these documents: no key, or key k with the number 5, with
\* {x: 1}, with {y: 2} or with {x: 2, y: 2}.
MergeContents ==
    {EmptyDict,
     DictV(<< "k" >> :> IntV(<< "5" >>)),
     DictV(<< "k" >> :> DictV(<< "x" >> :> IntV(<< "1" >>))),
     DictV(<< "k" >> :> DictV(<< "y" >> :> IntV(<< "2" >>))),
     DictV(<< "k" >> :> DictV((<< "x" >> :> IntV(<< "2" >>))
                              @@ (<< "y" >> :> IntV(<< "2" >>))))}

\* Parameter expressions read from these files: k, k.x and k.y.
MergeParams == {<< "k" >>, << "k", ".", "x" >>, << "k", ".", "y" >>}

\* The identifier of the settings file of context db/sub.
SubId == << "u", Digits[1] >>

\* A project with the contexts db and db/sub, each settings file holding
\* one of the documents above.
InitMerge ==
    /\ contextls = << context_line(n_db, FixtureId),
                      context_line(Join(<< n_db, n_sub >>, "/"), SubId) >>
    /\ \E c1, c2, c3 \in MergeContents :
          disk = [f \in FilePaths |->
                    IF f = settings_file THEN c1
                    ELSE IF f = context_file(FixtureId \o YamlSuffix) THEN c2
                    ELSE IF f = context_file(SubId \o YamlSuffix) THEN c3
                    ELSE Absent]
    /\ drawn = {SubId}
    /\ ops = 0
    /\ last = Call("init", BaseDir, << >>, None, FALSE, Returned(None), << >>)
    /\ pre_disk = disk
    /\ pre_contextls = contextls
    /\ InitEnv

NextMerge ==
    \/ \E path \in WorkDirs, para \in MergeParams : ContextGet(path, para)
    \/ \E para \in MergeParams : ProjectGet(para)

SpecMerge == InitMerge /\ [][NextMerge]_vars

\* ------------------------------------------------------------------------
\* Running commands
\* ------------------------------------------------------------------------

\* Number of run_command calls in a run.
MaxRuns == 1

\* Component values: the literal f, f-[[y]] with a reference to y, the
\* reference [[z]], [[y with no closing marker, and report-[[year]].csv.
v_f == << "f" >>

v_fy == << "f", "-", "[", "[", "y", "]", "]" >>

v_z == << "[", "[", "z", "]", "]" >>

v_open == << "[", "[", "y" >>

v_report == << "r", "e", "p", "o", "r", "t", "-", "[", "[", "y", "e", "a", "r",
               "]", "]", ".", "c", "s", "v" >>

n_y == << "y" >>

n_z == << "z" >>

n_year == << "y", "e", "a", "r" >>

\* A component entry of a specification document; the keys ioType and
\* asInput are optional.
Entry(type, value, io, input) ==
    [type |-> type, value |-> value]
    @@ (IF io # "none" THEN "ioType" :> io ELSE << >>)
    @@ (IF input THEN "asInput" :> TRUE ELSE << >>)

RunEntries ==
    {Entry(type, value, io, input) :
        type \in COMPONENT_TYPES, value \in {v_f, v_fy},
        io \in {"none"} \cup IO_TYPES, input \in BOOLEAN}

ConstX == Entry("CONST", << "x" >>, "none", FALSE)

\* The documents of the specification file of command c: one component,
\* or the constant x and one component; a variable component [[z]] after a
\* constant in an SQL command; the example; and the malformed documents:
\* an empty file, no spec, no type, an unknown command type, an unknown
\* component type, an unknown IO type, and an opening marker that is not
\* closed.
RunDocs ==
    {[type |-> "EXEC", spec |-> << el >>] : el \in RunEntries}
    \cup {[type |-> "EXEC", spec |-> << ConstX, el >>] : el \in RunEntries}
    \cup {[type |-> "SQL",
            spec |-> << ConstX, Entry("VAR", v_z, "none", FALSE) >>],
           [type |-> "EXEC",
            spec |-> << Entry("VAR", v_report, "none", FALSE) >>],
           None,
           [type |-> "EXEC"],
           [spec |-> << ConstX >>],
           [type |-> "X", spec |-> << ConstX >>],
           [type |-> "EXEC", spec |-> << Entry("X", v_f, "none", FALSE) >>],
           [type |-> "EXEC", spec |-> << Entry("VAR", v_f, "X", FALSE) >>],
           [type |-> "EXEC",
            spec |-> << ConstX, Entry("VAR", v_open, "none", FALSE) >>]}

\* default_values: none, y = 2, or year = 2023.
RunDefaults ==
    {<< >>, n_y :> << "2" >>,
     n_year :> << "2", "0", "2", "3" >>}

\* The directories, relative to the project directory, that hold a file
\* named f: none, the project directory, or the project directory and db.
InputPlaces == {{}, {BaseDir}, {BaseDir, << n_db >>}}

\* The project settings define y, and the settings of context db define z.
RunSettings == DictV(n_y :> StrV(<< "1" >>))

RunContext == DictV(n_z :> StrV(<< "3" >>))

\* A project with context db, one command c with any of the documents, and
\* a file f in any of the places.
InitRun ==
    /\ contextls = << context_line(n_db, FixtureId) >>
    /\ disk = [file \in FilePaths |->
                 IF file = settings_file THEN RunSettings
                 ELSE IF file = context_file(FixtureId \o YamlSuffix) THEN RunContext
                 ELSE Absent]
    /\ drawn = {}
    /\ ops = 0
    /\ last = [op |-> "init"]
    /\ pre_disk = disk
    /\ pre_contextls = contextls
    /\ \E doc \in RunDocs : cmd_files = (n_c :> doc)
    /\ \E places \in InputPlaces :
          fs = FixtureFs \cup {<< ProjectDir \o dir \o << v_f >>, "file" >> :
                                  dir \in places}
    /\ log = << >>
    /\ started = 0
    /\ procs = << >>
    /\ raw = << >>

\* WorkflowEngine(logger).run_command(ContextManager(path), cmd_name,
\* default_values, print_only), the process exiting with the given status
\* if it is started.
RunCommand(path, cmd_name, default_values, print_only, status) ==
    /\ ops < MaxRuns
    /\ \E r \in {run_command(cmd_files, disk, get_context_files(contextls, path),
                             log, cmd_name, default_values, print_only, status)} :
           /\ log' = r.log
           /\ started' = started + r.started
           /\ last' = [op |-> "run_command", path |-> path,
                       cmd_name |-> cmd_name,
                       default_values |-> default_values,
                       print_only |-> print_only, status |-> status,
                       res |-> r.res, printed |-> r.printed,
                       located |-> r.located,
                       pre_log |-> log, pre_started |-> started,
                       pre_cmd_files |-> cmd_files]
    /\ ops' = ops + 1
    /\ pre_disk' = disk
    /\ pre_contextls' = contextls
    /\ UNCHANGED << contextls, disk, drawn, cmd_files, fs, procs, raw >>

\* The working directories commands are run from: the project directory
\* and db/sub.
RunDirs == {BaseDir, << n_db, n_sub >>}

NextRun ==
    \E path \in RunDirs, cmd_name \in {n_c, << "n" >>},
       default_values \in RunDefaults, print_only \in BOOLEAN,
       status \in {0, 1} :
        RunCommand(path, cmd_name, default_values, print_only, status)

SpecRun == InitRun /\ [][NextRun]_vars

\* ------------------------------------------------------------------------
\* Loading a variable component
\* ------------------------------------------------------------------------

\* Length of the component values parsed.
MaxLen == 6

\* The characters of the component values: the two brackets and a letter.
Alphabet == {"[", "]", "a"}

ComponentValues == UNION {[1..n -> Alphabet] : n \in 0..MaxLen}

\* A component value of a specification document that is about to be
\* loaded.
InitParse ==
    /\ contextls = << context_line(n_db, FixtureId) >>
    /\ disk = [file \in FilePaths |->
                 IF file = settings_file THEN FixtureSettings
                 ELSE IF file = context_file(FixtureId \o YamlSuffix) THEN FixtureContext
                 ELSE Absent]
    /\ drawn = {}
    /\ ops = 0
    /\ \E value \in ComponentValues : last = [op |-> "value", value |-> value]
    /\ pre_disk = disk
    /\ pre_contextls = contextls
    /\ InitEnv

\* CommandComponent('VAR', value) for the value of the document.
NewComponent ==
    /\ last.op = "value"
    /\ last' = [op |-> "CommandComponent", value |-> last.value,
                res |-> CommandComponent("VAR", last.value, NoIoType, FALSE)]
    /\ UNCHANGED << contextls, disk, drawn, ops, pre_disk, pre_contextls >>
    /\ UNCHANGED env

NextParse == NewComponent

SpecParse == InitParse /\ [][NextParse]_vars

\* ------------------------------------------------------------------------
\* ContextManager(work_dir)
\* ------------------------------------------------------------------------

\* The test of the walk that is never true: no name is taken for the
\* repository directory.
is_repo_dir_never(name) == FALSE

\* name == conf.REPO_DIR
is_repo_dir(name) == name = REPO_DIR

\* The loop of ContextManager.__init__ from the pair (parent, name) on,
\* with the names appended to self.path so far: the repository directory
\* and the path as appended, or the ValueError.
RECURSIVE find_project(_, _, _, _)
find_project(files, parent, name, path) ==
    IF is_repo_dir(name)
    THEN Raised("ValueError", "invalid working directory")
    ELSE IF os_path_isdir(files, parent \o << REPO_DIR >>)
    THEN Returned([project_dir |-> parent \o << REPO_DIR >>,
                   path |-> Append(path, name)])
    ELSE IF parent = << >>
    THEN Raised("ValueError", "not under project repository")
    ELSE find_project(files, SubSeq(parent, 1, Len(parent) - 1),
                      parent[Len(parent)], Append(path, name))

\* list(reversed(path))
reversed(path) == [i \in 1..Len(path) |-> path[Len(path) + 1 - i]]

\* The checks of is_dir and is_file for what the repository directory is
\* expected to hold, in the order of ContextManager.__init__.
expected_files(files, project_dir) ==
    IF ~os_path_isdir(files, project_dir \o << COMMAND_DIR >>)
       \/ ~os_path_isdir(files, project_dir \o << CONTEXT_DIR >>)
    THEN Raised("RuntimeError", "sub-folder does not exist")
    ELSE IF ~os_path_isfile(files, project_dir \o << CONTEXTLIST_FILE >>)
            \/ ~os_path_isfile(files, project_dir \o << LOG_FILE >>)
            \/ ~os_path_isfile(files, project_dir \o << SETTINGS_FILE >>)
    THEN Raised("RuntimeError", "file does not exist")
    ELSE Returned(None)

\* ContextManager(work_dir) for the absolute path of work_dir: the
\* repository directory and self.path, or the exception.  os.path.split of
\* / gives the parent / and the empty name.
ContextManager(files, work_dir) ==
    IF ~os_path_isdir(files, work_dir)
    THEN Raised("ValueError", "not a directory")
    ELSE LET found ==
                 IF os_path_isdir(files, work_dir \o << REPO_DIR >>)
                 THEN Returned([project_dir |-> work_dir \o << REPO_DIR >>,
                                path |-> << >>])
                 ELSE IF work_dir = << >>
                 THEN find_project(files, << >>, << >>, << >>)
                 ELSE find_project(files, SubSeq(work_dir, 1, Len(work_dir) - 1),
                                   work_dir[Len(work_dir)], << >>)
         IN  IF found.exc # "none" THEN found
             ELSE LET expected == expected_files(files, found.val.project_dir) IN
                  IF expected.exc # "none" THEN expected
                  ELSE Returned([project_dir |-> found.val.project_dir,
                                 path |-> reversed(found.val.path)])

\* The directories /, /p, /p/db and /p/db/sub, any of which may hold a
\* project.
ResolveTree ==
    {<< >>, << n_p >>, << n_p, n_db >>, << n_p, n_db, n_sub >>}

\* The working directories: those directories, the repository directory
\* and the context directory of each, the directory /p/d, which does not
\* exist, and the settings file of /p, which is no directory.
ResolveDirs ==
    ResolveTree
    \cup {dir \o << REPO_DIR >> : dir \in ResolveTree}
    \cup {dir \o << REPO_DIR, CONTEXT_DIR >> : dir \in ResolveTree}
    \cup {<< n_p, n_d >>, << n_p, REPO_DIR, SETTINGS_FILE >>}

\* A file system in which any of the directories holds a project,
\* initialized as init_repository does, at most one of them with its
\* settings file or its command directory missing, and a working directory
\* to make the context manager for.
InitResolve ==
    /\ contextls = << context_line(n_db, FixtureId) >>
    /\ disk = [file \in FilePaths |->
                 IF file = settings_file THEN FixtureSettings
                 ELSE IF file = context_file(FixtureId \o YamlSuffix) THEN FixtureContext
                 ELSE Absent]
    /\ drawn = {}
    /\ ops = 0
    /\ \E work_dir \in ResolveDirs : last = [op |-> "work_dir", work_dir |-> work_dir]
    /\ pre_disk = disk
    /\ pre_contextls = contextls
    /\ cmd_files = FixtureCommands
    /\ \E projects \in SUBSET ResolveTree :
          \E missing \in {{}} \cup {{<< dir \o << REPO_DIR, name >>, kind >>} :
                                      dir \in projects,
                                      << name, kind >> \in
                                          {<< SETTINGS_FILE, "file" >>,
                                           << COMMAND_DIR, "dir" >>}} :
              fs = ({<< dir, "dir" >> : dir \in ResolveTree}
                    \cup UNION {init_repository(dir) : dir \in projects})
                   \ missing
    /\ log = << >>
    /\ started = 0
    /\ procs = << >>
    /\ raw = << >>

\* ContextManager(work_dir) for the working directory.
NewContextManager ==
    /\ last.op = "work_dir"
    /\ last' = [op |-> "ContextManager", work_dir |-> last.work_dir,
                res |-> ContextManager(fs, last.work_dir)]
    /\ UNCHANGED << contextls, disk, drawn, ops, pre_disk, pre_contextls >>
    /\ UNCHANGED env

NextResolve == NewContextManager

SpecResolve == InitResolve /\ [][NextResolve]_vars

\* ------------------------------------------------------------------------
\* Updates over settings files of any content
\* ------------------------------------------------------------------------

\* Parameter expressions set and deleted in these files: k and k.x.
CascadeParams == {<< "k" >>, << "k", ".", "x" >>}

\* update_value from db and from db/sub, both registered, on settings
\* files that hold any of the documents of MergeContents.
NextCascade ==
    \E path \in {<< n_db >>, << n_db, n_sub >>}, para \in CascadeParams,
       value \in Values \cup {None}, cascade \in BOOLEAN :
        ContextUpdate(path, para, value, cascade)

SpecCascade == InitMerge /\ [][NextCascade]_vars

\* ------------------------------------------------------------------------
\* Contexts created with identifiers that may repeat
\* ------------------------------------------------------------------------

\* ContextManager(path).create_context() with uuid4 producing any
\* identifier, one it has produced before included: the identifier is
\* drawn until no file of that name exists, and the line is appended.
CreateContextDrawn(path) ==
    /\ ops < MaxCalls
    /\ create_context_check(contextls, path).exc = "none"
    /\ \E context_id \in UuidPool :
          /\ ~isfile(disk, context_file(context_id \o YamlSuffix))
          /\ contextls' = append_line(contextls,
                                       context_line(Join(path, "/"), context_id))
          /\ drawn' = drawn \cup {context_id}
    /\ last' = Call("create_context", path, << >>, None, FALSE,
                    Returned(None), << >>)
    /\ ops' = ops + 1
    /\ pre_disk' = disk
    /\ pre_contextls' = contextls
    /\ UNCHANGED disk
    /\ UNCHANGED env

\* Contexts created and values set, from the test fixture on.
NextDrawn ==
    \/ \E path \in WorkDirs : CreateContextDrawn(path)
    \/ \E path \in WorkDirs : CreateContextFail(path)
    \/ \E path \in WorkDirs, para \in Params, value \in Values :
          ContextUpdate(path, para, value, FALSE)

SpecDrawn == Init /\ [][NextDrawn]_vars

\* ------------------------------------------------------------------------
\* A project as init_repository leaves it
\* ------------------------------------------------------------------------

\* The settings file and the context listing file exist and are empty:
\* yaml.load of the settings file gives None, and no context is
\* registered.
InitFresh ==
    /\ contextls = << >>
    /\ disk = [file \in FilePaths |->
                 IF file = settings_file THEN None ELSE Absent]
    /\ drawn = {}
    /\ ops = 0
    /\ last = Call("init", BaseDir, << >>, None, FALSE, Returned(None), << >>)
    /\ pre_disk = disk
    /\ pre_contextls = contextls
    /\ InitEnv

SpecFresh == InitFresh /\ [][Next]_vars

\* ------------------------------------------------------------------------
\* init_repository
\* ------------------------------------------------------------------------

\* The loop of init_repository over the ancestors of the current directory,
\* from parent on: the RuntimeError for the first one that holds a
\* repository directory.
RECURSIVE existing_repository(_, _)
existing_repository(files, parent) ==
    IF os_path_isdir(files, parent \o << REPO_DIR >>)
    THEN Raised("RuntimeError", "existing repository detected in")
    ELSE IF parent = << >> THEN Returned(None)
    ELSE existing_repository(files, SubSeq(parent, 1, Len(parent) - 1))

\* The checks of init_repository called in directory dir: the repository
\* directory must not exist in dir, as a file or as a directory, nor as a
\* directory in an ancestor of dir.  Nothing below dir is looked at.
init_repository_check(files, dir) ==
    IF os_path_isfile(files, dir \o << REPO_DIR >>)
       \/ os_path_isdir(files, dir \o << REPO_DIR >>)
    THEN Raised("RuntimeError", "existing repository detected")
    ELSE IF dir = << >> THEN existing_repository(files, << >>)
    ELSE existing_repository(files, SubSeq(dir, 1, Len(dir) - 1))

\* The directories /, /p, /p/db and /p/db/sub with no project in any of
\* them.
InitTree ==
    /\ contextls = << >>
    /\ disk = [file \in FilePaths |-> Absent]
    /\ drawn = {}
    /\ ops = 0
    /\ last = [op |-> "init"]
    /\ pre_disk = disk
    /\ pre_contextls = contextls
    /\ cmd_files = << >>
    /\ fs = {<< dir, "dir" >> : dir \in ResolveTree}
    /\ log = << >>
    /\ started = 0
    /\ procs = << >>
    /\ raw = << >>

\* init_repository() called in directory dir.
InitRepository(dir) ==
    /\ \E res \in {init_repository_check(fs, dir)} :
          /\ fs' = IF res.exc = "none" THEN fs \cup init_repository(dir) ELSE fs
          /\ last' = [op |-> "init_repository", dir |-> dir, res |-> res,
                      pre_fs |-> fs]
    /\ UNCHANGED << contextls, disk, drawn, ops, pre_disk, pre_contextls,
                    cmd_files, log, started, procs, raw >>

\* ContextManager(work_dir)
ContextManagerIn(work_dir) ==
    /\ last' = [op |-> "ContextManager", work_dir |-> work_dir,
                res |-> ContextManager(fs, work_dir), pre_fs |-> fs]
    /\ UNCHANGED << contextls, disk, drawn, ops, pre_disk, pre_contextls >>
    /\ UNCHANGED env

NextTree ==
    \/ \E dir \in ResolveTree : InitRepository(dir)
    \/ \E work_dir \in ResolveDirs : ContextManagerIn(work_dir)

SpecTree == InitTree /\ [][NextTree]_vars

\* ------------------------------------------------------------------------
\* Two processes updating the project settings
\* ------------------------------------------------------------------------

\* The keys of the settings the two processes work with, in the order
\* yaml.dump writes them (sorted).
SortedKeys == << << "a" >>, << "c" >>, << "z", "z" >> >>

\* The values at those keys: the number 1 and the texts v and vvvv.
RaceValues ==
    {IntV(<< "1" >>), StrV(<< "v" >>), StrV(<< "v", "v", "v", "v" >>)}

\* The mappings of those keys to those values.
RaceDocs ==
    UNION {{DictV(f) : f \in [keys -> RaceValues]} :
              keys \in SUBSET {SortedKeys[i] : i \in 1..Len(SortedKeys)}}

\* The lines yaml.dump(settings, f, default_flow_style=False) writes for
\* the keys SortedKeys[i..] of a mapping of scalars: key, colon, space,
\* value, newline.
RECURSIVE dump_lines(_, _)
dump_lines(doc, i) ==
    IF i > Len(SortedKeys) THEN << >>
    ELSE (IF SortedKeys[i] \in DOMAIN doc.v
          THEN SortedKeys[i] \o << ":", " " >> \o doc.v[SortedKeys[i]].v \o << NL >>
          ELSE << >>)
         \o dump_lines(doc, i + 1)

\* yaml.dump of a mapping of scalars; the empty mapping is written as {}.
yaml_dump(doc) ==
    IF DOMAIN doc.v = {} THEN << "{", "}", NL >> ELSE dump_lines(doc, 1)

\* The text is what yaml.dump writes for the mapping, followed by any
\* number of empty lines.
is_document(text, doc) ==
    \E n \in 0..Len(text) : text = yaml_dump(doc) \o [i \in 1..n |-> NL]

\* yaml.load of the text of a file: None for an empty file, the mapping
\* for a text yaml.dump wrote, empty lines after it ignored, and a scanner
\* error for any other text.
yaml_load(text) ==
    IF text = << >> THEN Returned(None)
    ELSE IF \E doc \in RaceDocs : is_document(text, doc)
    THEN Returned(CHOOSE doc \in RaceDocs : is_document(text, doc))
    ELSE Raised("YAMLError", "")

\* open(filename, 'w'): the file is truncated when it is opened.
open_w(text) == << >>

\* What the file holds after a process that opened it for writing has
\* written text from the start of the file: the text, followed by whatever
\* the file held beyond the length of the text.
write_from_start(old, text) ==
    text \o SubSeq(old, Len(text) + 1, Len(old))

\* The statements of update_value between reading the file and opening it
\* for writing: the settings as changed in memory, or the exception.
modify(loaded, para, value) ==
    LET path == Split(para, ".")
        key == Strip(path[Len(path)])
    IN  IF key = << >> THEN Raised("ValueError", "invalid parameter name")
        ELSE IF loaded.exc # "none" THEN loaded
        ELSE update_walk(loaded.val, SubSeq(path, 1, Len(path) - 1), key, value)

\* The settings file before the two calls: a = 1.
RaceSettings == DictV(<< "a" >> :> IntV(<< "1" >>))

\* The keys and values the two processes set.
RaceParams == {<< "c" >>, << "z", "z" >>}

RaceSetValues == {StrV(<< "v" >>), StrV(<< "v", "v", "v", "v" >>)}

\* Two processes, each about to call
\* project_settings().update_value(para, value) on the same project.
InitRace ==
    /\ contextls = << >>
    /\ disk = [file \in FilePaths |-> Absent]
    /\ drawn = {}
    /\ ops = 0
    /\ last = [op |-> "init"]
    /\ pre_disk = disk
    /\ pre_contextls = contextls
    /\ cmd_files = FixtureCommands
    /\ fs = FixtureFs
    /\ log = << >>
    /\ started = 0
    /\ \E p1, p2 \in RaceParams, v1, v2 \in RaceSetValues :
          procs = << [para |-> p1, value |-> v1, pc |-> "start",
                      settings |-> None, res |-> Returned(None)],
                     [para |-> p2, value |-> v2, pc |-> "start",
                      settings |-> None, res |-> Returned(None)] >>
    /\ raw = yaml_dump(RaceSettings)

\* Process p reads the file and changes the settings in memory
\* (read_settings and the walk of update_value).
ReadSettings(p) ==
    /\ procs[p].pc = "start"
    /\ \E r \in {modify(yaml_load(raw), procs[p].para, procs[p].value)} :
          procs' = [procs EXCEPT
                      ![p].pc = IF r.exc = "none" THEN "modified" ELSE "raised",
                      ![p].settings = r.val,
                      ![p].res = IF r.exc = "none" THEN Returned(None) ELSE r]
    /\ last' = [op |-> "read_settings", proc |-> p]
    /\ UNCHANGED << contextls, disk, drawn, ops, pre_disk, pre_contextls,
                    cmd_files, fs, log, started, raw >>

\* Process p opens the file for writing.
OpenFile(p) ==
    /\ procs[p].pc = "modified"
    /\ raw' = open_w(raw)
    /\ procs' = [procs EXCEPT ![p].pc = "opened"]
    /\ last' = [op |-> "open", proc |-> p]
    /\ UNCHANGED << contextls, disk, drawn, ops, pre_disk, pre_contextls,
                    cmd_files, fs, log, started >>

\* Process p writes the settings and closes the file; update_value
\* returns.
DumpSettings(p) ==
    /\ procs[p].pc = "opened"
    /\ raw' = write_from_start(raw, yaml_dump(procs[p].settings))
    /\ procs' = [procs EXCEPT ![p].pc = "returned"]
    /\ last' = [op |-> "dump", proc |-> p]
    /\ UNCHANGED << contextls, disk, drawn, ops, pre_disk, pre_contextls,
                    cmd_files, fs, log, started >>

NextRace ==
    \E p \in {1, 2} : ReadSettings(p) \/ OpenFile(p) \/ DumpSettings(p)

SpecRace == InitRace /\ [][NextRace]_vars

\* ------------------------------------------------------------------------
\* Properties
\* ------------------------------------------------------------------------

\* The greatest element of a non-empty set of integers.
Max(S) == CHOOSE m \in S : \A x \in S : x <= m

\* The settings chain of a working directory in the current state.
Chain(path) == get_context_files(contextls, path)

\* The own content of the i-th file of a chain on disk d.
Content(d, cfiles, i) == read_settings(d, cfiles[i][2])

\* What get_value returns in the context of a working directory on disk d.
Get(d, path, para) == get_value(d, Chain(path), para)

\* The registry holds a record for the relative path rel.
Registered(lines, rel) ==
    \E i \in 1..Len(lines), id \in UuidPool : lines[i] = context_line(rel, id)

\* The settings file of the last registry record for the relative path rel.
RegisteredFile(lines, rel) ==
    LET i == Max({j \in 1..Len(lines) :
                    \E id \in UuidPool : lines[j] = context_line(rel, id)})
        id == CHOOSE id \in UuidPool : lines[i] = context_line(rel, id)
    IN  context_file(id \o YamlSuffix)

\* The joined prefixes of a relative path, cut at segment boundaries.
PrefixKeys(path) == {Join(SubSeq(path, 1, n), "/") : n \in 1..Len(path)}

\* The merged view of the chain cfiles on disk d is the fold of its files:
\* it has exactly the keys of the files; at a key whose most specific
\* holder has a scalar, that scalar; at a key whose most specific holder
\* has a mapping, the union of the mappings of the holders after the last
\* scalar holder, each entry taken from its most specific holder.
FoldAgrees(d, cfiles) ==
    LET M == settings(d, cfiles)
        C(i) == Content(d, cfiles, i)
    IN  /\ IsDict(M)
        /\ DOMAIN M.v = UNION {DOMAIN C(i).v : i \in 1..Len(cfiles)}
        /\ \A k \in DOMAIN M.v :
             LET H == {i \in 1..Len(cfiles) : k \in DOMAIN C(i).v}
                 j == Max(H)
                 s == Max({0} \cup {i \in H : ~IsDict(C(i).v[k])})
                 R == {i \in H : i > s}
             IN  IF ~IsDict(C(j).v[k]) THEN M.v[k] = C(j).v[k]
                 ELSE /\ IsDict(M.v[k])
                      /\ DOMAIN M.v[k].v = UNION {DOMAIN C(i).v[k].v : i \in R}
                      /\ \A x \in DOMAIN M.v[k].v :
                           LET m == Max({i \in R : x \in DOMAIN C(i).v[k].v})
                               leaf == C(m).v[k].v[x]
                           IN  IF IsDict(leaf) THEN IsDict(M.v[k].v[x])
                               ELSE M.v[k].v[x] = leaf

\* While the files are those of the test fixture, context db reads a = 1,
\* b = 1 and c = 2, and the project view reads b = 2.
FixtureExample ==
    (/\ disk[settings_file] = FixtureSettings
     /\ disk[context_file(FixtureId \o YamlSuffix)] = FixtureContext
     /\ Chain(<< n_db >>) = << << << >>, settings_file >>,
                               << n_db, context_file(FixtureId \o YamlSuffix) >> >>)
    => /\ Get(disk, << n_db >>, << "a" >>) = Returned(IntV(<< "1" >>))
       /\ Get(disk, << n_db >>, << "b" >>) = Returned(IntV(<< "1" >>))
       /\ Get(disk, << n_db >>, << "c" >>) = Returned(IntV(<< "2" >>))
       /\ get_value(disk, project_files, << "b" >>) = Returned(IntV(<< "2" >>))

\* C1: in every state and for every working directory, the merged view that
\* get_value reads is the left-to-right fold of the chain files: a colliding
\* key has the value of the more specific file, a key of a less specific
\* file only is retained, and two mappings at one key are merged key by key.
C1_MergedViewIsFold ==
    /\ \A path \in WorkDirs : FoldAgrees(disk, Chain(path))
    /\ FoldAgrees(disk, project_files)
    /\ FixtureExample

\* A chain whose first two files both hold a mapping at one key, with
\* different keys inside, and both hold b.
C1_Witness ==
    \E path \in WorkDirs :
        LET cfiles == Chain(path) IN
        /\ Len(cfiles) >= 2
        /\ << "b" >> \in DOMAIN Content(disk, cfiles, 1).v
        /\ << "b" >> \in DOMAIN Content(disk, cfiles, 2).v
        /\ \E k \in DOMAIN Content(disk, cfiles, 1).v \cap
                    DOMAIN Content(disk, cfiles, 2).v :
              /\ IsDict(Content(disk, cfiles, 1).v[k])
              /\ IsDict(Content(disk, cfiles, 2).v[k])
              /\ DOMAIN Content(disk, cfiles, 1).v[k].v
                   # DOMAIN Content(disk, cfiles, 2).v[k].v

\* The longest prefix of path that is the project base or has a registry
\* record.
NearestRegistered(path) ==
    LET n == Max({0} \cup {i \in 1..Len(path) :
                     Registered(contextls, Join(SubSeq(path, 1, i), "/"))})
    IN  SubSeq(path, 1, n)

\* C2: the settings chain of a working directory is the project settings
\* file followed by the settings files of exactly the registered prefixes of
\* its path cut at segment boundaries, shortest first; a working directory
\* without a record reads the merged view of its nearest registered
\* ancestor.
C2_ChainIsRegisteredPrefixes ==
    \A path \in WorkDirs :
        LET cfiles == Chain(path) IN
        /\ cfiles[1] = << << >>, settings_file >>
        /\ \A i \in 2..Len(cfiles) :
             /\ cfiles[i][1] \in PrefixKeys(path)
             /\ Registered(contextls, cfiles[i][1])
             /\ cfiles[i][2] = RegisteredFile(contextls, cfiles[i][1])
        /\ \A key \in PrefixKeys(path) :
             Registered(contextls, key)
                => \E i \in 2..Len(cfiles) : cfiles[i][1] = key
        /\ \A i, j \in 2..Len(cfiles) :
             i < j => Len(cfiles[i][1]) < Len(cfiles[j][1])
        /\ settings(disk, cfiles) = settings(disk, Chain(NearestRegistered(path)))

\* Both d and db are registered, and the chain of db/sub, which has no
\* record, is the project settings file and the file of db.
C2_Witness ==
    /\ Registered(contextls, n_d)
    /\ Registered(contextls, n_db)
    /\ ~Registered(contextls, Join(<< n_db, n_sub >>, "/"))
    /\ Len(Chain(<< n_db, n_sub >>)) = 2
    /\ Chain(<< n_db, n_sub >>)[2][1] = n_db

\* The last call was an update_value that returned.
Updated ==
    /\ last.op \in {"update_value", "project_update_value"}
    /\ last.res.exc = "none"

\* The files of the Config object the last call was made on.
CallChain ==
    IF last.op \in {"project_get_value", "project_update_value"}
    THEN project_files
    ELSE Chain(last.path)

\* The proper ancestor directories of a working directory, the project
\* base included.
ProperAncestors(path) == {SubSeq(path, 1, n) : n \in 0..(Len(path) - 1)}

\* The working directories whose chain is a proper prefix of the chain of
\* the last call: the strictly less specific contexts.
LessSpecific ==
    {Q \in WorkDirs :
        /\ Len(Chain(Q)) < Len(CallChain)
        /\ Chain(Q) = SubSeq(CallChain, 1, Len(Chain(Q)))}

\* A parameter expression with the whitespace around its last component
\* removed: the name update_value stores the value under.
TrimLast(para) ==
    LET path == Split(para, ".") IN
    Join([path EXCEPT ![Len(path)] = Strip(path[Len(path)])], ".")

\* What a file's own content has at a parameter expression.
Own(d, cfiles, i, para) == get_walk(Content(d, cfiles, i), Split(para, "."))

\* get_value gives the same for every parameter in the context of working
\* directory Q as before the last call.
SameView(Q) ==
    LET cfiles == Chain(Q)
        M == settings(disk, cfiles)
        before == settings(pre_disk, cfiles)
    IN  \A para \in GetParams :
            get_walk(M, Split(para, ".")) = get_walk(before, Split(para, "."))

\* C3 as stated: after a non-cascading set(k, v) from context P, get(k)
\* from P returns v and get of any key from any proper ancestor directory
\* of P returns what it returned before.
C3_AsStated ==
    (Updated /\ last.op = "update_value" /\ ~last.cascade /\ last.value # None)
    => /\ Get(disk, last.path, last.para) = Returned(last.value)
       /\ \A Q \in ProperAncestors(last.path) : SameView(Q)

\* C3, amended: after a non-cascading set(k, v) that returned, get from the
\* same context of k with the whitespace around its last component removed
\* returns v, and get of any key from any context whose chain is a proper
\* prefix of the chain written to returns what it returned before.
C3_SetThenGet ==
    (Updated /\ ~last.cascade /\ last.value # None)
    => /\ get_value(disk, CallChain, TrimLast(last.para)) = Returned(last.value)
       /\ \A Q \in LessSpecific : SameView(Q)

\* A set from the registered context db/sub that db, itself registered,
\* does not see.
C3_Witness ==
    /\ Updated /\ last.op = "update_value" /\ ~last.cascade /\ last.value # None
    /\ last.path = << n_db, n_sub >>
    /\ Len(Chain(last.path)) = 3
    /\ Get(disk, last.path, last.para) = Returned(last.value)
    /\ Get(disk, << n_db >>, last.para) # Returned(last.value)

\* C4 as stated: after a cascading set(k, v) from context P, every file of
\* the chain but the project settings holds v at k and get(k) from every
\* context of the chain returns v.
C4_AsStated ==
    (Updated /\ last.op = "update_value" /\ last.cascade /\ last.value # None)
    => /\ \A i \in 2..Len(CallChain) :
             Own(disk, CallChain, i, last.para) = Returned(last.value)
       /\ \A i \in 1..Len(CallChain) :
             get_value(disk, SubSeq(CallChain, 1, i), last.para)
                = Returned(last.value)

\* C4, amended: after a cascading set(k, v) that returned, every file of the
\* chain but the project settings holds v at k with the whitespace around
\* its last component removed, get of that name from every registered
\* context of the chain returns v, and get of it from the project base
\* returns what it returned before.
C4_CascadingSet ==
    (Updated /\ last.op = "update_value" /\ last.cascade /\ last.value # None)
    => /\ \A i \in 2..Len(CallChain) :
             Own(disk, CallChain, i, TrimLast(last.para)) = Returned(last.value)
       /\ \A i \in 2..Len(CallChain) :
             get_value(disk, SubSeq(CallChain, 1, i), TrimLast(last.para))
                = Returned(last.value)
       /\ get_value(disk, project_files, TrimLast(last.para))
             = get_value(pre_disk, project_files, TrimLast(last.para))

\* A cascading set from db/sub that wrote the files of db and of db/sub.
C4_Witness ==
    /\ Updated /\ last.op = "update_value" /\ last.cascade /\ last.value # None
    /\ Len(CallChain) = 3
    /\ Len(last.written) = 2
    /\ Own(pre_disk, CallChain, 2, TrimLast(last.para)) # Returned(last.value)

\* C5: a cascading update_value, set or delete, returned or not, leaves the
\* project settings file as it was and does not write it, so the project
\* view reads the same; on a chain of the project settings file alone it
\* writes no file.
C5_CascadeKeepsProjectSettings ==
    (last.op = "update_value" /\ last.cascade)
    => /\ disk[settings_file] = pre_disk[settings_file]
       /\ \A i \in 1..Len(last.written) : last.written[i] # settings_file
       /\ \A para \in GetParams :
             get_value(disk, project_files, para)
                = get_value(pre_disk, project_files, para)
       /\ Len(CallChain) = 1 => (last.written = << >> /\ disk = pre_disk)

\* A cascading set that wrote the files of two contexts, after which the
\* project view still does not read the value set.
C5_Witness ==
    /\ Updated /\ last.op = "update_value" /\ last.cascade /\ last.value # None
    /\ Len(last.written) = 2
    /\ get_value(disk, project_files, TrimLast(last.para)) # Returned(last.value)

Got == last.op \in {"get_value", "project_get_value"}

\* Every component of the path segs is a key of the mapping reached so far
\* in the merged view M (paths of one or two components).
Present(M, segs) ==
    /\ IsDict(M)
    /\ segs[1] \in DOMAIN M.v
    /\ Len(segs) = 2 => /\ IsDict(M.v[segs[1]])
                        /\ segs[2] \in DOMAIN M.v[segs[1]].v

\* What the path segs, present in M, ends at.
Leaf(M, segs) ==
    IF Len(segs) = 1 THEN M.v[segs[1]] ELSE M.v[segs[1]].v[segs[2]]

\* The components of a parameter expression are its maximal parts without
\* a dot, in order.
IsSplit(para, segs) ==
    /\ Join(segs, ".") = para
    /\ \A i \in 1..Len(segs) : Find(segs[i], ".", 1) = 0

C8_AbsentGivesNone ==
    (Got /\ ~Present(settings(disk, CallChain), Split(last.para, ".")))
    => last.res = Returned(None)

\* The relative path of a registry record.
LinePath(line) == Split(Strip(line), TAB)[1]

\* C9: create_context from a working directory with a registry record fails
\* with the already-exists error and leaves the registry as it was; from a
\* working directory other than the project base without a record it
\* returns and appends one record for that path, whatever records its
\* ancestors have; no two records of the registry have the same path.
C9_CreateContext ==
    /\ (last.op = "create_context"
          /\ Registered(pre_contextls, Join(last.path, "/")))
       => /\ last.res = Raised("RuntimeError", "context already exists")
          /\ contextls = pre_contextls
    /\ (last.op = "create_context" /\ last.path # BaseDir
          /\ ~Registered(pre_contextls, Join(last.path, "/")))
       => /\ last.res = Returned(None)
          /\ Len(contextls) = Len(pre_contextls) + 1
          /\ SubSeq(contextls, 1, Len(pre_contextls)) = pre_contextls
          /\ \E id \in UuidPool :
                contextls[Len(contextls)] = context_line(Join(last.path, "/"), id)
    /\ \A i, j \in 1..Len(contextls) :
          i < j => LinePath(contextls[i]) # LinePath(contextls[j])

\* A create_context from db/sub that returned while db had a record.
C9_Witness ==
    /\ last.op = "create_context"
    /\ last.path = << n_db, n_sub >>
    /\ last.res.exc = "none"
    /\ Registered(pre_contextls, n_db)
    /\ Registered(contextls, Join(last.path, "/"))

\* C10: create_context from the project base fails with the project-base
\* error and appends nothing, and no record of the registry has the empty
\* path.
C10_NoContextInProjectBase ==
    /\ (last.op = "create_context" /\ last.path = BaseDir)
       => /\ last.res = Raised("RuntimeError",
                               "cannot create context in project base")
          /\ contextls = pre_contextls
    /\ \A i \in 1..Len(contextls) : LinePath(contextls[i]) # << >>

\* A create_context from the project base, which raised.
C10_Witness ==
    /\ last.op = "create_context"
    /\ last.path = BaseDir
    /\ last.res.exc = "RuntimeError"

\* C11: the registry is append-only. Whatever the last call was, every
\* record the registry had before it is still there, unchanged and in the
\* same position; the registry is longer than before only after a
\* create_context that returned, and then by exactly one record at its end.
C11_RegistryAppendOnly ==
    /\ Len(pre_contextls) <= Len(contextls)
    /\ SubSeq(contextls, 1, Len(pre_contextls)) = pre_contextls
    /\ contextls # pre_contextls
         => /\ last.op = "create_context"
            /\ last.res.exc = "none"
            /\ Len(contextls) = Len(pre_contextls) + 1
    /\ contextls[1] = context_line(n_db, FixtureId)

\* A create_context that returned and extended a registry of two records,
\* the earlier one appended by a create_context too.
C11_Witness ==
    /\ last.op = "create_context"
    /\ last.res.exc = "none"
    /\ Len(pre_contextls) = 2
    /\ Len(contextls) = 3

\* The chain of db/sub holds {k: {x: 1}}, {k: 5} and {k: {y: 2}}, in this
\* order.
MergeExample ==
    LET cfiles == Chain(<< n_db, n_sub >>) IN
    /\ Len(cfiles) = 3
    /\ Content(disk, cfiles, 1) = DictV(<< "k" >> :> DictV(<< "x" >> :> IntV(<< "1" >>)))
    /\ Content(disk, cfiles, 2) = DictV(<< "k" >> :> IntV(<< "5" >>))
    /\ Content(disk, cfiles, 3) = DictV(<< "k" >> :> DictV(<< "y" >> :> IntV(<< "2" >>)))

\* C12: at every step of the fold of every chain, a key that holds a scalar
\* on one side and a mapping on the other has, after the step, exactly the
\* value of the later file; with the chain {k: {x: 1}}, {k: 5}, {k: {y: 2}}
\* the merged view has k = {y: 2} and a get_value of k.x fails as unknown.
C12_LaterValueWinsOutright ==
    /\ \A path \in WorkDirs :
          LET cfiles == Chain(path) IN
          \A i \in 2..Len(cfiles) :
              LET earlier == settings_upto(disk, cfiles, i - 1)
                  later == Content(disk, cfiles, i)
                  merged == settings_upto(disk, cfiles, i)
              IN  /\ IsDict(merged)
                  /\ \A key \in DOMAIN earlier.v \cap DOMAIN later.v :
                        IsDict(earlier.v[key]) # IsDict(later.v[key])
                           => merged.v[key] = later.v[key]
    /\ MergeExample
         => /\ settings(disk, Chain(<< n_db, n_sub >>)).v[<< "k" >>]
                 = DictV(<< "y" >> :> IntV(<< "2" >>))
            /\ (last.op = "get_value" /\ last.path = << n_db, n_sub >>
                   /\ last.para = << "k", ".", "x" >>)
                 => last.res = Raised("ValueError", "unknown parameter")
            /\ (last.op = "get_value" /\ last.path = << n_db, n_sub >>
                   /\ last.para = << "k", ".", "y" >>)
                 => last.res = Returned(IntV(<< "2" >>))

\* The chain of the example, read at k.x from db/sub.
C12_Witness ==
    /\ MergeExample
    /\ last.op = "get_value"
    /\ last.path = << n_db, n_sub >>
    /\ last.para = << "k", ".", "x" >>
    /\ last.res.exc = "ValueError"

\* The last call was a run_command that found and loaded its command.
RanCommand ==
    /\ last.op = "run_command"
    /\ get_command(cmd_files, last.cmd_name).exc = "none"

\* The components of the command of the last call.
RunComponents == get_command(cmd_files, last.cmd_name).val.components

\* What a variable reference stands for in the last call: the override if
\* there is one, else what get_value returns in the context of the working
\* directory, else the unknown-variable error.
Resolved(name) ==
    IF name \in DOMAIN last.default_values
    THEN Returned(last.default_values[name])
    ELSE LET val == Get(disk, last.path, name) IN
         IF val.exc = "none" /\ val.val.t = "str" THEN Returned(val.val.v)
         ELSE Raised("ValueError", "unknown variable")

\* The concatenation of tokens, each reference replaced by what it stands
\* for, or the error of the first reference that stands for nothing.
RECURSIVE Concatenated(_)
Concatenated(tokens) ==
    IF tokens = << >> THEN Returned(<< >>)
    ELSE LET token == Head(tokens)
             rest == Concatenated(Tail(tokens))
             here == IF StartsWith(token, OpenMarker)
                     THEN Resolved(SubSeq(token, 3, Len(token) - 2))
                     ELSE Returned(token)
         IN  IF here.exc # "none" THEN here
             ELSE IF rest.exc # "none" THEN rest
             ELSE Returned(here.val \o rest.val)

\* C13: a print-only run of a command with one variable component that is
\* no input prints the concatenation of the component's tokens, each
\* reference [[name]] replaced by the override of name if there is one, else
\* by get_value(name), and fails with the unknown-variable error when
\* neither defines name; report-[[year]].csv with override year = 2023 is
\* printed as report-2023.csv.
C13_RenderVariable ==
    (/\ RanCommand
     /\ last.print_only
     /\ Len(RunComponents) = 1
     /\ RunComponents[1].obj_type = "VAR"
     /\ ~is_input(RunComponents[1]))
    => LET expected == Concatenated(RunComponents[1].tokens) IN
       /\ expected.exc = "none"
            => last.res = Returned(None) /\ last.printed = << expected.val >>
       /\ expected.exc # "none" => last.res = expected
       /\ (RunComponents[1].value = v_report
              /\ n_year \in DOMAIN last.default_values)
            => last.printed = << << "r", "e", "p", "o", "r", "t", "-", "2", "0",
                                   "2", "3", ".", "c", "s", "v" >> >>

\* The markers of a string in the order they are met from the left: "o"
\* for [[ and "c" for ]].
RECURSIVE Markers(_)
Markers(s) ==
    IF Len(s) < 2 THEN << >>
    ELSE IF SubSeq(s, 1, 2) = OpenMarker
         THEN << "o" >> \o Markers(SubSeq(s, 3, Len(s)))
    ELSE IF SubSeq(s, 1, 2) = CloseMarker
         THEN << "c" >> \o Markers(SubSeq(s, 3, Len(s)))
    ELSE Markers(Tail(s))

\* Some opening marker has no closing marker of its own: from some opening
\* marker on there are more opening than closing markers.
Unbalanced(s) ==
    LET m == Markers(s) IN
    \E j \in 1..Len(m) :
        /\ m[j] = "o"
        /\ Cardinality({i \in j..Len(m) : m[i] = "o"})
             > Cardinality({i \in j..Len(m) : m[i] = "c"})

\* The concatenation of a list of strings.
RECURSIVE Flatten(_)
Flatten(tokens) ==
    IF tokens = << >> THEN << >> ELSE Head(tokens) \o Flatten(Tail(tokens))

\* The tokens of a balanced value: none is empty, each is a literal without
\* an opening marker or a reference from [[ to ]], and their concatenation
\* is the value.
TokensOf(value, tokens) ==
    /\ \A i \in 1..Len(tokens) :
          /\ tokens[i] # << >>
          /\ \/ FindStr(tokens[i], OpenMarker, 1) = 0
             \/ /\ Len(tokens[i]) >= 4
                /\ StartsWith(tokens[i], OpenMarker)
                /\ EndsWith(tokens[i], CloseMarker)
    /\ Flatten(tokens) = value

\* C14, first part: a value whose opening markers each have a closing
\* marker of their own is loaded, and its tokens are non-empty literals and
\* references whose concatenation is the value.
C14_BalancedIsParsed ==
    (last.op = "CommandComponent" /\ ~Unbalanced(last.value))
    => /\ last.res.exc = "none"
       /\ TokensOf(last.value, last.res.val.tokens)

\* C14: loading a variable component gives such tokens for every balanced
\* value, and is refused with the invalid-expression error for every value
\* with an opening marker that has no closing marker of its own.
C14_TokenParsing ==
    /\ C14_BalancedIsParsed
    /\ (last.op = "CommandComponent" /\ Unbalanced(last.value))
        => last.res = Raised("ValueError", "invalid variable expression")

\* The text of a path of the file system.
PathString(path) == << "/" >> \o Join(path, "/")

\* The levels of the working directory of the last call, 0 for the project
\* directory, at which a file or directory of the given kind and name
\* exists.
FoundAt(name, kind) ==
    {n \in 0..Len(last.path) :
        << ProjectDir \o SubSeq(last.path, 1, n) \o << name >>, kind >> \in fs}

\* C15: a print-only run of a command whose one component is a constant
\* flagged as input with ioType FILE or DIR prints the path of the file or
\* directory of that name in the nearest of the working directory and its
\* ancestors up to the project directory that has one, and fails with an
\* error the program reports when none has.
C15_InputIsLocated ==
    (/\ RanCommand
     /\ last.print_only
     /\ Len(RunComponents) = 1
     /\ RunComponents[1].obj_type = "CONST"
     /\ is_input(RunComponents[1]))
    => LET name == RunComponents[1].value
           kind == IF RunComponents[1].io_type = "FILE" THEN "file" ELSE "dir"
           found == FoundAt(name, kind)
       IN  IF found # {}
           THEN /\ last.res = Returned(None)
                /\ last.printed =
                      << PathString(ProjectDir \o SubSeq(last.path, 1, Max(found))
                                    \o << name >>) >>
           ELSE last.res.exc \in {"ValueError", "RuntimeError"}

\* The command directory with the asInput key taken out of every component
\* entry of command c that is constant (if consts) or has no ioType.
WithoutAsInput(consts) ==
    LET doc == cmd_files[n_c]
        cleared(el) ==
            IF (consts /\ el.type = "CONST") \/ "ioType" \notin DOMAIN el
            THEN [key \in DOMAIN el \ {"asInput"} |-> el[key]]
            ELSE el
    IN  n_c :> [doc EXCEPT !.spec = [i \in 1..Len(doc.spec) |-> cleared(doc.spec[i])]]

\* The last call has the outcome it has with the command directory cmds:
\* the same result or exception and the same lines printed.
SameOutcome(cmds) ==
    LET r == run_command(cmds, disk, Chain(last.path), last.pre_log,
                         last.cmd_name, last.default_values, last.print_only,
                         last.status)
    IN  r.res = last.res /\ r.printed = last.printed

\* C16 as stated: a run has the same outcome as with asInput = false on
\* every constant component and every variable component without ioType,
\* and looks up as input only variable components with an ioType that are
\* flagged as input.
C16_AsStated ==
    (RanCommand /\ last.cmd_name = n_c)
    => /\ SameOutcome(WithoutAsInput(TRUE))
       /\ \A i \in 1..Len(last.located) :
             LET el == RunComponents[last.located[i]] IN
             el.obj_type = "VAR" /\ el.io_type # NoIoType /\ el.as_input

\* C16, amended: a run has the same outcome as with asInput = false on
\* every component without ioType, constant or variable, and looks up as
\* input only components with an ioType that are flagged as input.
C16_AsInputNeedsIoType ==
    (RanCommand /\ last.cmd_name = n_c)
    => /\ SameOutcome(WithoutAsInput(FALSE))
       /\ \A i \in 1..Len(last.located) :
             LET el == RunComponents[last.located[i]] IN
             el.io_type # NoIoType /\ el.as_input

\* A print-only run that returned for a command with a component flagged
\* as input that has no ioType.
C16_Witness ==
    /\ RanCommand
    /\ last.print_only
    /\ last.res = Returned(None)
    /\ last.printed # << >>
    /\ \E i \in 1..Len(RunComponents) :
          RunComponents[i].as_input /\ RunComponents[i].io_type = NoIoType

\* What the loop of the last run_command over the components gives.
Rendering ==
    render_components(RunComponents, 1, disk, Chain(last.path),
                      last.default_values)

\* The last call was a run_command whose command was loaded and whose
\* components were all rendered.
Rendered == RanCommand /\ Rendering.res.exc = "none"

\* C17: a run with print_only = False whose components were all rendered
\* starts the process once; when the process exits with status 0 the call
\* returns and the log has gained exactly the entry of the command (name,
\* and for each component its value, with io type and input flag for the
\* IO components); when it exits with another status the log is as before
\* and the call fails with an error the program reports.
C17_LoggedIffExitZero ==
    (Rendered /\ ~last.print_only)
    => /\ started = last.pre_started + 1
       /\ last.status = 0
            => /\ last.res = Returned(None)
               /\ log = Append(last.pre_log,
                               log_entry(get_command(cmd_files, last.cmd_name).val,
                                         Rendering.res.val))
       /\ last.status # 0
            => /\ last.res.exc \in {"ValueError", "RuntimeError"}
               /\ log = last.pre_log

\* C18: a run with print_only = True whose components were all rendered
\* returns, prints the components joined by spaces, starts no process, and
\* appends to the log exactly one entry, which is not the entry of a
\* successful run.
C18_SubmittedIsLogged ==
    (Rendered /\ last.print_only)
    => /\ last.res = Returned(None)
       /\ last.printed = << Join(Rendering.res.val, " ") >>
       /\ started = last.pre_started
       /\ Len(log) = Len(last.pre_log) + 1
       /\ SubSeq(log, 1, Len(last.pre_log)) = last.pre_log
       /\ log[Len(log)] # log_entry(get_command(cmd_files, last.cmd_name).val,
                                    Rendering.res.val)

\* C19: a run_command that fails while loading the command (unknown, or a
\* malformed document) or while rendering a component, the last one
\* included, has started no process, printed nothing, appended nothing to
\* the log and changed no settings file, registry record or command
\* document; a process is started and the log extended only after the
\* command was loaded and every component rendered.
C19_NothingBeforeRendering ==
    last.op = "run_command"
    => /\ (~RanCommand \/ Rendering.res.exc # "none")
            => /\ last.res.exc # "none"
               /\ started = last.pre_started
               /\ log = last.pre_log
               /\ last.printed = << >>
               /\ disk = pre_disk
               /\ contextls = pre_contextls
               /\ cmd_files = last.pre_cmd_files
       /\ (started # last.pre_started \/ log # last.pre_log) => Rendered

\* A run of a command of two components, with print_only = False, that
\* rendered the first component and failed on the second.
C19_Witness ==
    /\ RanCommand
    /\ ~last.print_only
    /\ Len(RunComponents) = 2
    /\ to_cmd_string(RunComponents[1], disk, Chain(last.path),
                     last.default_values).exc = "none"
    /\ Rendering.res.exc # "none"
    /\ last.res = Rendering.res

\* The directories that hold a repository directory.
Projects == {dir \in ResolveTree : os_path_isdir(fs, dir \o << REPO_DIR >>)}

\* The working directory of the last call is a repository directory or
\* lies inside one.
InRepositoryDir ==
    \E n \in 1..Len(last.work_dir) : last.work_dir[n] = REPO_DIR

\* The projects that govern the working directory of the last call: those
\* in the working directory itself or in one of its ancestors.
Governing ==
    {dir \in Projects :
        /\ Len(dir) <= Len(last.work_dir)
        /\ SubSeq(last.work_dir, 1, Len(dir)) = dir}

\* The repository directory at dir holds everything init_repository
\* creates.
Intact(dir) == init_repository(dir) \subseteq fs

NestedAbove(dir) ==
    \E m, n \in 0..Len(dir) :
        /\ m < n
        /\ os_path_isdir(fs, SubSeq(dir, 1, m) \o << REPO_DIR >>)
        /\ os_path_isdir(fs, SubSeq(dir, 1, n) \o << REPO_DIR >>)

\* C21: a context manager made for a working directory with two project
\* roots on the path from / to it fails, and after every init_repository no
\* directory with a project root lies below another one.
C21_OneRootGoverns ==
    /\ (last.op = "ContextManager" /\ NestedAbove(last.work_dir))
          => last.res.exc # "none"
    /\ last.op = "init_repository"
          => \A dir \in ResolveTree : ~NestedAbove(dir)

\* init_repository refuses a directory below a project root.
C21_NoRootBelow ==
    (/\ last.op = "init_repository"
     /\ \E n \in 0..Len(last.dir) :
           os_path_isdir(last.pre_fs, SubSeq(last.dir, 1, n) \o << REPO_DIR >>))
    => last.res.exc = "RuntimeError" /\ fs = last.pre_fs

\* Both calls have returned.
BothReturned == \A p \in {1, 2} : procs[p].pc = "returned"

\* The last process to write.
LaterWriter == last.proc

\* Both calls returned, the two keys differ, and the file holds the later
\* writer's settings, in which the key of the other call is missing: one
\* update is lost.
C22_LostUpdate ==
    /\ last.op = "dump"
    /\ BothReturned
    /\ procs[1].para # procs[2].para
    /\ raw = yaml_dump(procs[LaterWriter].settings)
    /\ procs[3 - LaterWriter].para \notin DOMAIN procs[LaterWriter].settings.v

\* C22: once two calls that set different keys have both returned,
\* whatever the interleaving of their steps, the file holds what one of the
\* two calls wrote as a whole, empty lines after it not counted.  (That a
\* lost update is reachable is the state C22_LostUpdate.)
C22_WholeFileOfOneWriter ==
    (BothReturned /\ procs[1].para # procs[2].para)
    => \E p \in {1, 2} : is_document(raw, procs[p].settings)

\* C23: a cascading set that fails has rewritten, in the order of the
\* chain, exactly the files from the second of the chain up to the one
\* before the file it failed at, and each of them holds the value; the
\* file it failed at and every file after it, and the project settings
\* file, are as they were.
C23_CascadeNotTransactional ==
    (/\ last.op = "update_value"
     /\ last.cascade
     /\ last.value # None
     /\ last.res.exc # "none")
    => LET cfiles == CallChain
           n == Len(last.written)
       IN  /\ n + 2 <= Len(cfiles)
           /\ \A j \in 1..n :
                /\ last.written[j] = cfiles[j + 1][2]
                /\ Own(disk, cfiles, j + 1, TrimLast(last.para))
                     = Returned(last.value)
           /\ \A j \in (n + 2)..Len(cfiles) :
                disk[cfiles[j][2]] = pre_disk[cfiles[j][2]]
           /\ disk[settings_file] = pre_disk[settings_file]

\* A cascading set from db/sub that has rewritten the file of db, failed
\* at the file of db/sub and changed the file of db.
C23_Witness ==
    /\ last.op = "update_value"
    /\ last.cascade
    /\ last.value # None
    /\ last.res.exc # "none"
    /\ Len(CallChain) = 3
    /\ Len(last.written) = 1
    /\ disk[CallChain[2][2]] # pre_disk[CallChain[2][2]]

\* The last call was a delete: an update_value without a value.
Deleting ==
    /\ last.op \in {"update_value", "project_update_value"}
    /\ last.value = None

\* A component before the last one of the parameter expression is missing
\* in the settings el: the components before it lead through mappings,
\* and the mapping they end at does not hold it.
MissingIntermediate(el, para) ==
    LET path == Split(para, ".") IN
    \E n \in 1..(Len(path) - 1) :
        get_walk_any(el, SubSeq(path, 1, n))
            = Raised("ValueError", "unknown parameter")

\* C24: a delete, not cascading, of a parameter expression with a
\* component before the last one missing in the file it is aimed at
\* returns without an exception and leaves every file as it was.
C24_DeleteStopsAtMissing ==
    (/\ Deleting
     /\ ~last.cascade
     /\ MissingIntermediate(
            Content(pre_disk, CallChain, Len(CallChain)), last.para))
    => /\ last.res.exc = "none"
       /\ disk = pre_disk

\* A delete of e.c aimed at a file without e that returned and removed
\* the key c of the file itself.
C24_RemovedAtStop ==
    /\ Deleting
    /\ ~last.cascade
    /\ last.para = << "e", ".", "c" >>
    /\ last.res.exc = "none"
    /\ << "e" >> \notin DOMAIN Content(pre_disk, CallChain, Len(CallChain)).v
    /\ << "c" >> \in DOMAIN Content(pre_disk, CallChain, Len(CallChain)).v
    /\ << "c" >> \notin DOMAIN Content(disk, CallChain, Len(CallChain)).v

\* C25: a cascading delete of a key (a parameter expression of one
\* component that names a key) returns without an exception; every file of
\* the chain but the project settings file then holds what it held before
\* without the key, so a file that lacked the key is unchanged; and the
\* project settings file is unchanged.
C25_CascadeDeleteSkipsAbsent ==
    (/\ Deleting
     /\ last.cascade
     /\ Len(Split(last.para, ".")) = 1
     /\ Strip(last.para) # << >>)
    => LET cfiles == CallChain
           key == Strip(last.para)
       IN  /\ last.res.exc = "none"
           /\ \A i \in 2..Len(cfiles) :
                LET before == Content(pre_disk, cfiles, i)
                    after == Content(disk, cfiles, i)
                IN  /\ DOMAIN after.v = DOMAIN before.v \ {key}
                    /\ \A k \in DOMAIN after.v : after.v[k] = before.v[k]
           /\ disk[settings_file] = pre_disk[settings_file]

\* A component before the last one of the parameter expression holds a
\* scalar in the settings el: the components before it lead through
\* mappings, and the mapping they end at holds a value at it that is no
\* mapping.
ScalarIntermediate(el, para) ==
    LET path == Split(para, ".") IN
    \E n \in 1..(Len(path) - 1) :
        LET r == get_walk_any(el, SubSeq(path, 1, n)) IN
        r.exc = "none" /\ ~IsDict(r.val)

\* The ValueError update_value raises for a path through a scalar.
PathConflict ==
    Raised("ValueError", "cannot create element under text value")

\* C26: an update_value, not cascading, with or without a value, raises
\* the path conflict ValueError and leaves every file as it was when a
\* component before the last one holds a scalar in the own content of the
\* file it is aimed at, and it does not raise that error otherwise,
\* whatever the less specific files hold.
C26_PathConflict ==
    (/\ last.op \in {"update_value", "project_update_value"}
     /\ ~last.cascade
     /\ Strip(Split(last.para, ".")[Len(Split(last.para, "."))]) # << >>)
    => IF ScalarIntermediate(
              Content(pre_disk, CallChain, Len(CallChain)), last.para)
       THEN last.res = PathConflict /\ disk = pre_disk
       ELSE last.res # PathConflict

\* The path conflict raised, for a text value, with every file left as it
\* was.
C26_RaisedForText ==
    /\ last.op \in {"update_value", "project_update_value"}
    /\ last.res = PathConflict
    /\ disk = pre_disk

\* The mapping after is the mapping before with only the path comps
\* created or changed to hold the value, or, without a value, with what the
\* path leads to removed; every key off the path is as it was.
RECURSIVE OnlyPathChanged(_, _, _, _)
OnlyPathChanged(before, after, comps, value) ==
    /\ IsDict(before)
    /\ IsDict(after)
    /\ LET c == Head(comps) IN
       /\ \A k \in (DOMAIN before.v \cup DOMAIN after.v) \ {c} :
            /\ k \in DOMAIN before.v \cap DOMAIN after.v
            /\ after.v[k] = before.v[k]
       /\ IF Len(comps) = 1
          THEN IF value = None THEN c \notin DOMAIN after.v
               ELSE c \in DOMAIN after.v /\ after.v[c] = value
          ELSE IF c \notin DOMAIN before.v
          THEN IF value = None THEN c \notin DOMAIN after.v
               ELSE /\ c \in DOMAIN after.v
                    /\ OnlyPathChanged(EmptyDict, after.v[c], Tail(comps), value)
          ELSE /\ c \in DOMAIN after.v
               /\ OnlyPathChanged(before.v[c], after.v[c], Tail(comps), value)

\* The files the last update_value was aimed at: the last file of the
\* chain, or, cascading, every file of the chain but the first.
Targeted ==
    {CallChain[i][2] :
        i \in (IF last.cascade THEN 2 ELSE Len(CallChain))..Len(CallChain)}

\* The components of the parameter expression of the last call, the last
\* one with the whitespace around it removed.
CallPath == Split(TrimLast(last.para), ".")

\* C27: after an update_value that returned, every file it was aimed at
\* holds its own previous mapping with only the path to the key created or
\* changed, or, after a delete, its own previous mapping without the key,
\* and every other file is as it was.
C27_OwnContentOnly ==
    Updated
    => \A file \in FilePaths :
          IF file \in Targeted
          THEN OnlyPathChanged(read_settings(pre_disk, file),
                               read_settings(disk, file), CallPath, last.value)
          ELSE disk[file] = pre_disk[file]

\* The same for every update_value but a delete with a component before
\* the last one missing in a file it is aimed at.
C27_ButDeleteAtMissing ==
    (/\ Updated
     /\ ~(/\ last.value = None
          /\ \E file \in Targeted :
                MissingIntermediate(read_settings(pre_disk, file), last.para)))
    => C27_OwnContentOnly

\* The last call was an update_value that returned, not cascading, made in
\* a working directory without a registry record of its own.
UpdatedFromUnregistered ==
    /\ last.op = "update_value"
    /\ last.res.exc = "none"
    /\ ~last.cascade
    /\ ~Registered(contextls, Join(last.path, "/"))

\* The settings file of the nearest registered ancestor of a working
\* directory, the project settings file if there is none.
NearestFile(path) ==
    LET ancestor == NearestRegistered(path) IN
    IF ancestor = BaseDir THEN settings_file
    ELSE RegisteredFile(contextls, Join(ancestor, "/"))

\* The working directories at or below a directory.
Descendants(dir) ==
    {Q \in WorkDirs : Len(dir) <= Len(Q) /\ SubSeq(Q, 1, Len(dir)) = dir}

\* C28 as stated: such a call writes the settings file of the nearest
\* registered ancestor, the project settings file if there is none, and
\* after a set the value is read from that ancestor and from every working
\* directory below it.
C28_AsStated ==
    UpdatedFromUnregistered
    => /\ last.written = << NearestFile(last.path) >>
       /\ last.value # None
            => \A Q \in Descendants(NearestRegistered(last.path)) :
                  Get(disk, Q, TrimLast(last.para)) = Returned(last.value)

\* C28: such a call writes the settings file of the nearest registered
\* ancestor, the project settings file if there is none, and no other
\* file; after a set the value is read, under the name with the whitespace
\* around its last component removed, from every working directory whose
\* nearest registered ancestor is that one; after a delete the own content
\* of the file has no value under that name.
C28_WrittenToNearest ==
    UpdatedFromUnregistered
    => LET file == NearestFile(last.path) IN
       /\ last.written = << file >>
       /\ \A other \in FilePaths \ {file} : disk[other] = pre_disk[other]
       /\ last.value # None
            => \A Q \in WorkDirs :
                  NearestRegistered(Q) = NearestRegistered(last.path)
                  => Get(disk, Q, TrimLast(last.para)) = Returned(last.value)
       /\ last.value = None
            => get_walk(read_settings(disk, file),
                        Split(TrimLast(last.para), ".")).exc = "ValueError"

\* A set from db/sub, which has no record, written to the file of db and
\* read from db.
C28_Witness ==
    /\ UpdatedFromUnregistered
    /\ last.path = << n_db, n_sub >>
    /\ last.value # None
    /\ last.written = << context_file(FixtureId \o YamlSuffix) >>
    /\ disk # pre_disk
    /\ Get(disk, << n_db >>, TrimLast(last.para)) = Returned(last.value)

\* C29: no two records of the registry for different paths name the same
\* settings file.
C29_DistinctIdentifiers ==
    LET contexts == read_contexts(contextls) IN
    \A k1, k2 \in DOMAIN contexts :
        k1 # k2 => contexts[k1] # contexts[k2]

\* The project settings file was empty before the last call.
WasEmpty == pre_disk[settings_file] = None

\* C30: while the project settings file is as init_repository leaves it,
\* a get of any key at the project level raises the ValueError of
\* get_value, a set at the project level of a parameter expression that
\* names a key returns, and the value is then read under that name.
C30_FreshProject ==
    /\ (last.op = "project_get_value" /\ WasEmpty)
          => last.res.exc = "ValueError"
    /\ (/\ last.op = "project_update_value"
        /\ WasEmpty
        /\ last.value # None
        /\ Strip(Split(last.para, ".")[Len(Split(last.para, "."))]) # << >>)
          => /\ last.res.exc = "none"
             /\ get_value(disk, project_files, TrimLast(last.para))
                  = Returned(last.value)

\* A get at the project level with an empty settings file raises the
\* ValueError for a value that is no mapping.
C30_GetOfEmpty ==
    (last.op = "project_get_value" /\ WasEmpty)
    => last.res = Raised("ValueError", "cannot get value")

====
